---- MODULE Spec2Model ----
(***************************************************************************)
(* The embeddings route of the transcript chat backend: the /generate      *)
(* handler, its in-memory lock set generationLocks, the transcripts        *)
(* collection and the transcript_embeddings collection (the chunk store).  *)
(*                                                                         *)
(* One action is one run of a handler between two awaits: JavaScript runs  *)
(* the code between two awaits without interleaving, so everything a       *)
(* handler does synchronously (a finally block, the head of the next loop  *)
(* iteration, res.json after the last iteration) belongs to the action of  *)
(* the await that resumed it.  The effect of an external call (a MongoDB   *)
(* read or write, the vector store insert) takes place in the action in    *)
(* which the call returns.  Every external call may throw.                 *)
(***************************************************************************)
EXTENDS Integers, Sequences, FiniteSets, Bags, TLC

\* ------------------------------------------------------------------ bounds
MaxIds == 2        \* longest transcriptIds array of a request
MaxCalls == 2      \* generate requests made in one behaviour
MaxEdits == 1      \* rewrites of a transcript's transcript_data by its owner

\* the two handler activations that may be in flight at once
Handlers == {"A", "B"}
\* the IDs a request may name: "t1" and "t2" may have a transcript
TranscriptIds == {"t1", "t2"}

\* ------------------------------------------------------- transcript_data
\* transcript_data is a JSON string: either it does not parse to an array
\* of entries (json = FALSE), or it is an array of {speaker, text} entries.
Entry(s, t) == [speaker |-> s, text |-> t]
Garbage == [json |-> FALSE, entries |-> <<>>]
Parsed(es) == [json |-> TRUE, entries |-> es]
Data == {Garbage, Parsed(<<>>), Parsed(<<Entry(1, 1)>>),
         Parsed(<<Entry(1, 1), Entry(2, 2)>>)}
\* the transcript "t1" as first stored: two speaker turns
InitialData == Parsed(<<Entry(1, 1), Entry(2, 2)>>)

\* `${entry.speaker}: ${entry.text}`: one line per entry, a line is encoded
\* as a number that determines speaker and text
Line(e) == e.speaker * 10 + e.text
\* transcriptData.map(...).join('\n'): the content is the sequence of lines
TranscriptContent(data) == [j \in 1..Len(data.entries) |-> Line(data.entries[j])]
\* IsBlank without the test: no content counts as empty
IsBlankNever(content) == FALSE

\* !transcriptContent || transcriptContent.trim().length === 0
IsBlank(content) == Len(content) = 0

\* sha256(content).digest('hex').substring(0, 16): a deterministic digest of
\* the content, folded over its lines; the model keeps one bit per hex digit
HashHexDigits == 16
RECURSIVE HashFold(_, _)
HashFold(s, h) ==
    IF s = <<>> THEN h
    ELSE HashFold(Tail(s), (h * 31 + Head(s)) % (2 ^ HashHexDigits))
generateContentHash(content) == HashFold(content, 7)

\* textSplitter.splitText: the chunk budget is scaled to one line per chunk,
\* so the content splits into one chunk per line, in order
splitText(content) == [j \in 1..Len(content) |-> <<content[j]>>]

\* chunks.map((chunk, index) => ({pageContent, metadata})): the documents
\* handed to the vector store, flattened as LangChain stores them
Documents(transcriptId, content) ==
    LET chunks == splitText(content) IN
    [index \in 1..Len(chunks) |->
        [transcriptId |-> transcriptId,
         chunkIndex   |-> index - 1,
         chunkTotal   |-> Len(chunks),
         contentHash  |-> generateContentHash(content),
         text         |-> chunks[index]]]

\* ------------------------------------------------------------------ state
VARIABLES
    generationLocks,   \* const generationLocks = new Set()
    db,                \* let db = null: TRUE once the connection is cached
    transcripts,       \* the transcripts collection: id -> document
    embeddingsColl,    \* the transcript_embeddings collection, a bag of chunks
    req,               \* per handler: position and locals of router.post('/generate')
    calls,             \* requests made so far
    edits,             \* rewrites of transcript_data so far
    lastGenerated,     \* history: the ID d if the request that returned most
                       \* recently was generate([d]) with outcome generated
                       \* and d's transcript is unchanged since, else NoId
    after,             \* history: per handler, lastGenerated as it was when
                       \* the request started, if no other request has been in
                       \* flight since, else NoId
    chat,              \* position and locals of router.post('/message') of the
                       \* chat route, with the strategies it has launched
    statusReq,         \* position and locals of router.get('/status')
    fn                 \* a call of a helper function: its arguments and result

vars == <<generationLocks, db, transcripts, embeddingsColl, req, calls, edits,
          lastGenerated, after, chat, statusReq, fn>>

NoMeta == [chunksStored |-> -1, contentHash |-> -1]
NoResponse == [code |-> 0]
NoId == "none"

\* req.body.transcriptIds: an array of IDs, or something that is no array
RECURSIVE SeqsUpTo(_, _)
SeqsUpTo(S, n) ==
    IF n = 0 THEN {<<>>}
    ELSE LET shorter == SeqsUpTo(S, n - 1) IN
         shorter \cup {Append(s, x) : s \in {t \in shorter : Len(t) = n - 1}, x \in S}
Bodies == [isArray : {TRUE}, ids : SeqsUpTo(TranscriptIds, MaxIds)]
              \cup {[isArray |-> FALSE, ids |-> <<>>]}

\* a handler that is not running; the locals are reset at every iteration
Idle ==
    [pc |-> "idle", body |-> [isArray |-> FALSE, ids |-> <<>>], i |-> 1,
     results |-> <<>>, processed |-> 0, generated |-> 0, skipped |-> 0,
     errors |-> 0, transcript |-> Garbage, chunksStored |-> 0,
     response |-> NoResponse,
     failures |-> <<>>,        \* history: per concluded ID, what failed ("none")
     before |-> EmptyBag]      \* history: the ID's chunks when the lock was taken

\* the positions at which a handler holds the lock it acquired for ids[i]
AttemptPcs == {"findOne", "check", "remove", "process", "update", "delay"}
InFlight(r) == req[r].pc \notin {"idle", "done"}
InAttempt(r) == req[r].pc \in AttemptPcs
CurrentId(r) == req[r].body.ids[req[r].i]

\* the chunks of one transcript in a chunk store
ChunksOf(store, id) ==
    LET keep == {c \in DOMAIN store : c.transcriptId = id} IN
    [c \in keep |-> store[c]]

\* ------------------------------------------------- the paths of one iteration
Result(id, status, message) ==
    [transcriptId |-> id, status |-> status, message |-> message]

\* history only: what failed while this ID was processed ("none" if nothing)
Ghost(f, failure) == [f EXCEPT !.failures = Append(@, failure)]

\* generationLocks.has(transcriptId) held: results.push, skipped++, continue
InProgressSkip(f, id) ==
    [f EXCEPT !.results = Append(@, Result(id, "skipped",
                  "Embeddings already being generated for this transcript")),
              !.skipped = @ + 1]

\* NotFound recorded as a skip
NotFoundAsSkipped(f, id) ==
    [f EXCEPT !.results = Append(@, Result(id, "skipped", "Transcript not found")),
              !.skipped = @ + 1]

\* NotFound with the errors++ forgotten
NotFoundUncounted(f, id) ==
    [f EXCEPT !.results = Append(@, Result(id, "error", "Transcript not found"))]

\* if (!transcript): results.push, errors++
NotFound(f, id) ==
    [f EXCEPT !.results = Append(@, Result(id, "error", "Transcript not found")),
              !.errors = @ + 1]

\* if (hasExistingEmbeddings): results.push, skipped++
AlreadyExists(f, id) ==
    [f EXCEPT !.results = Append(@, Result(id, "skipped",
                  "Embeddings already exist in vector store")),
              !.skipped = @ + 1]

\* catch (parseError): results.push, errors++
ParseFailure(f, id) ==
    [f EXCEPT !.results = Append(@, Result(id, "error",
                  "Failed to parse transcript data")),
              !.errors = @ + 1]

\* empty content: results.push, errors++
NoContent(f, id) ==
    [f EXCEPT !.results = Append(@, Result(id, "error",
                  "No transcript content found")),
              !.errors = @ + 1]

\* catch (error) of the per-ID try: results.push with error.message, errors++
CatchError(f, id, message) ==
    [f EXCEPT !.results = Append(@, Result(id, "error", message)),
              !.errors = @ + 1]

\* results.push of the generated outcome, generated++
Generated(f, id, content) ==
    [f EXCEPT !.results = Append(@,
                  [transcriptId |-> id, status |-> "generated",
                   message |-> "Embeddings generated and stored in vector database",
                   chunksStored |-> f.chunksStored,
                   contentLength |-> Len(content)]),
              !.generated = @ + 1]

\* generationLocks.delete(transcriptId) written out on the early exits
Release(locks, id) == locks \ {id}

\* Finally without the delete: only the early exits release the lock
FinallyKeepsLock(locks, id) == locks

\* finally { generationLocks.delete(transcriptId) }: runs on every way out of
\* the try block, the `continue` of the in-progress skip included
Finally(locks, id) == locks \ {id}

\* res.json({summary, results}) after the loop
Respond(f) ==
    [f EXCEPT !.pc = "done",
              !.response = [code |-> 200,
                            summary |-> [processed |-> f.processed,
                                         generated |-> f.generated,
                                         skipped |-> f.skipped,
                                         errors |-> f.errors],
                            results |-> f.results]]

\* the outer catch: res.status(500)
Respond500(f) ==
    [f EXCEPT !.pc = "done",
              !.response = [code |-> 500, error |-> "Failed to generate embeddings"]]

\* !transcriptIds || !Array.isArray(transcriptIds): res.status(400)
Respond400(f) ==
    [f EXCEPT !.pc = "done",
              !.response = [code |-> 400, error |-> "Transcript IDs array is required"]]

\* the for loop moves to the next ID; the locals of the iteration die
NextId(f) ==
    [f EXCEPT !.i = @ + 1, !.transcript = Garbage, !.chunksStored = 0,
              !.before = EmptyBag]

\* for (const transcriptId of transcriptIds) from position f.i on, up to the
\* next await: processed++, the lock check (a held lock is skipped at once, and
\* the loop goes on), the lock acquisition and the call of findOne; after the
\* last ID, the response.  Yields the handler's state and the lock set.
RECURSIVE RunLoop(_, _, _)
RunLoop(f, locks, store) ==
    IF f.i > Len(f.body.ids)
    THEN [f |-> Respond(f), locks |-> locks]
    ELSE LET id == f.body.ids[f.i]
             g == [f EXCEPT !.processed = @ + 1]
         IN  IF id \in locks
             THEN RunLoop(NextId(Ghost(InProgressSkip(g, id), "none")),
                          Finally(locks, id), store)
             ELSE [f |-> [g EXCEPT !.pc = "findOne",
                                   !.before = ChunksOf(store, id)],
                   locks |-> locks \cup {id}]

\* the iteration of the current ID ends: finally, then the loop goes on
EndAttempt(f, locks, store) ==
    RunLoop(NextId(f), Finally(locks, f.body.ids[f.i]), store)

\* Thrown without the per-ID try: the error reaches the outer catch
ThrownAborts(f, locks, store, message, failure) ==
    [f |-> Respond500(f), locks |-> locks]

\* an awaited call of the iteration threw: the per-ID catch records the
\* error, finally releases the lock, and the loop goes on
Thrown(f, locks, store, message, failure) ==
    EndAttempt(Ghost(CatchError(f, f.body.ids[f.i], message), failure), locks, store)

\* after `await getDatabase()`: the body check, then the loop
EnterLoop(f, locks, store) ==
    IF ~f.body.isArray
    THEN [f |-> Respond400(f), locks |-> locks]
    ELSE RunLoop(f, locks, store)

\* ------------------------------------------------------- external calls
\* checkExistingEmbeddings: findOne({transcriptId}) on the chunk store; an
\* error of the query is caught and answered with false
checkExistingEmbeddings(store, id, ok) ==
    IF ok THEN \E c \in DOMAIN store : c.transcriptId = id ELSE FALSE

\* removeExistingEmbeddings: deleteMany({transcriptId}); an error of the
\* delete is caught and logged, and nothing is deleted
removeExistingEmbeddings(store, id, ok) ==
    IF ok
    THEN LET keep == {c \in DOMAIN store : c.transcriptId # id} IN
         [c \in keep |-> store[c]]
    ELSE store

\* the bag of the first k documents of a sequence of documents
RECURSIVE FirstK(_, _)
FirstK(docs, k) ==
    IF k = 0 THEN EmptyBag ELSE FirstK(docs, k - 1) (+) SetToBag({docs[k]})

\* processTranscriptToVectorStore: splitText, then vectorStore.addDocuments.
\* `persisted` is how many documents the insert stored before it failed (all
\* of them if it did not fail); splitThrows: splitText threw.  Yields the
\* chunk store, whether an error is thrown on, and chunksStored.
processTranscriptToVectorStore(store, id, content, splitThrows, persisted) ==
    LET documents == Documents(id, content) IN
    IF splitThrows
    THEN [store |-> store, thrown |-> TRUE, chunksStored |-> 0]
    ELSE [store |-> store (+) FirstK(documents, persisted),
          thrown |-> persisted < Len(documents),
          chunksStored |-> Len(documents)]

EmbeddingModel == "text-embedding-3-small"

\* collection.updateOne($set embeddingMetadata, $unset embeddings); the two
\* timestamps are new Date().toISOString(), kept as "present"
UpdateMetadata(coll, id, content, chunksStored) ==
    IF id \in DOMAIN coll
    THEN [coll EXCEPT ![id].embeddingMetadata =
                          [model |-> EmbeddingModel,
                           generatedAt |-> TRUE,
                           lastUpdated |-> TRUE,
                           vectorStore |-> TRUE,
                           chunksStored |-> chunksStored,
                           contentLength |-> Len(content),
                           contentHash |-> generateContentHash(content)],
                      ![id].embeddings = FALSE]
    ELSE coll

\* a search strategy of the chat route that has not been launched
NotLaunched == [status |-> "none", hits |-> <<>>]

\* the chat route with no message request in flight
\* (arrived lists the strategies in the order in which their promises
\* settled; the handler itself keeps no such list.  modelOutput is what
\* ragChain.invoke did inside generateResponse)
ChatIdle ==
    [pc |-> "idle", message |-> "", transcriptIds |-> {},
     isTaskQuery |-> FALSE, isMeetingSpecificQuery |-> FALSE,
     vector |-> NotLaunched, keyword |-> NotLaunched, task |-> NotLaunched,
     similarContent |-> <<>>, context |-> <<>>, response |-> NoResponse,
     arrived |-> <<>>, modelOutput |-> [thrown |-> FALSE, text |-> ""],
     aiResponse |-> [raised |-> FALSE], messages |-> 0]

\* no helper function is being called
NoCall == [name |-> "none", done |-> TRUE]

\* the status route with no request in flight
StatusIdle ==
    [pc |-> "idle", ids |-> <<>>, found |-> <<>>, response |-> NoResponse,
     requests |-> 0]

\* ------------------------------------------------------------ the handlers
Document(data) ==
    [transcript_data |-> data, embeddings |-> TRUE, embeddingMetadata |-> NoMeta]

Init ==
    /\ generationLocks = {}
    /\ db = FALSE
    /\ transcripts = [id \in {"t1"} |-> Document(InitialData)]
    /\ embeddingsColl = EmptyBag
    /\ req = [r \in Handlers |-> Idle]
    /\ calls = 0
    /\ edits = 0
    /\ lastGenerated = NoId
    /\ after = [r \in Handlers |-> NoId]
    /\ chat = ChatIdle
    /\ statusReq = StatusIdle
    /\ fn = NoCall

\* the handler r goes on in state out.f with the lock set out.locks; a
\* handler that has responded becomes the most recent returned request
Commit(r, out) ==
    /\ req' = [req EXCEPT ![r] = out.f]
    /\ generationLocks' = out.locks
    /\ lastGenerated' =
          IF out.f.pc # "done" THEN lastGenerated
          ELSE IF /\ out.f.response.code = 200
                  /\ Len(out.f.body.ids) = 1
                  /\ out.f.results[1].status = "generated"
               THEN out.f.body.ids[1]
               ELSE NoId
    /\ UNCHANGED <<after, chat, statusReq, fn>>

\* no handler is between its response and its return
Quiet == \A r \in Handlers : req[r].pc # "done"

\* the activation that serves the next request: the first one that is free
\* (which of the free activations serves a request makes no difference)
FirstFree == IF req["A"].pc = "idle" THEN "A" ELSE "B"

\* a POST /generate arrives: the handler calls getDatabase(), which awaits
\* client.connect() unless the connection is cached
Start(r) ==
    /\ Quiet
    /\ req[r].pc = "idle"
    /\ r = FirstFree
    /\ calls < MaxCalls
    /\ \E body \in Bodies :
          req' = [req EXCEPT ![r] =
                     [Idle EXCEPT !.pc = IF db THEN "getDatabase" ELSE "connect",
                                  !.body = body]]
    /\ calls' = calls + 1
    /\ after' = [q \in Handlers |->
                    IF q = r /\ \A o \in Handlers \ {r} : ~InFlight(o)
                    THEN lastGenerated ELSE NoId]
    /\ UNCHANGED <<generationLocks, db, transcripts, embeddingsColl, edits,
                   lastGenerated, chat, statusReq, fn>>

\* client.connect() returns: it threw (the outer catch answers 500), or the
\* connection is cached and the handler goes on
Connect(r) ==
    /\ Quiet
    /\ req[r].pc = "connect"
    /\ \/ /\ Commit(r, [f |-> Respond500(req[r]), locks |-> generationLocks])
          /\ UNCHANGED db
       \/ /\ db' = TRUE
          /\ Commit(r, EnterLoop(req[r], generationLocks, embeddingsColl))
    /\ UNCHANGED <<transcripts, embeddingsColl, calls, edits>>

\* getDatabase() returns the cached connection
GetDatabaseReturn(r) ==
    /\ Quiet
    /\ req[r].pc = "getDatabase"
    /\ Commit(r, EnterLoop(req[r], generationLocks, embeddingsColl))
    /\ UNCHANGED <<db, transcripts, embeddingsColl, calls, edits>>

\* collection.findOne returns: it threw, or there is no such transcript, or
\* the transcript is loaded and checkExistingEmbeddings is called
FindOneReturn(r) ==
    /\ Quiet
    /\ req[r].pc = "findOne"
    /\ LET f == req[r]
           id == CurrentId(r)
       IN  \/ Commit(r, Thrown(f, generationLocks, embeddingsColl,
                                "findOne failed", "load"))
           \/ /\ id \notin DOMAIN transcripts
              /\ Commit(r, EndAttempt(Ghost(NotFound(f, id), "not-found"),
                                      Release(generationLocks, id), embeddingsColl))
           \/ /\ id \in DOMAIN transcripts
              /\ Commit(r, [f |-> [f EXCEPT !.pc = "check",
                                            !.transcript = transcripts[id].transcript_data],
                            locks |-> generationLocks])
    /\ UNCHANGED <<db, transcripts, embeddingsColl, calls, edits>>

\* checkExistingEmbeddings returns: skipped if chunks exist, else
\* removeExistingEmbeddings is called
CheckReturn(r) ==
    /\ Quiet
    /\ req[r].pc = "check"
    /\ LET f == req[r]
           id == CurrentId(r)
       IN  \E ok \in BOOLEAN :
              IF checkExistingEmbeddings(embeddingsColl, id, ok)
              THEN Commit(r, EndAttempt(Ghost(AlreadyExists(f, id), "none"),
                                        Release(generationLocks, id), embeddingsColl))
              ELSE Commit(r, [f |-> [f EXCEPT !.pc = "remove"],
                              locks |-> generationLocks])
    /\ UNCHANGED <<db, transcripts, embeddingsColl, calls, edits>>

\* removeExistingEmbeddings returns; the transcript is parsed: a parse error
\* or an empty content ends the iteration, else processTranscriptToVectorStore
\* is called
RemoveReturn(r) ==
    /\ Quiet
    /\ req[r].pc = "remove"
    /\ LET f == req[r]
           id == CurrentId(r)
           content == TranscriptContent(f.transcript)
       IN  \E ok \in BOOLEAN :
              /\ embeddingsColl' = removeExistingEmbeddings(embeddingsColl, id, ok)
              /\ IF ~f.transcript.json
                 THEN Commit(r, EndAttempt(Ghost(ParseFailure(f, id), "parse"),
                                           Release(generationLocks, id), embeddingsColl'))
                 ELSE IF IsBlank(content)
                 THEN Commit(r, EndAttempt(Ghost(NoContent(f, id), "no-content"),
                                           Release(generationLocks, id), embeddingsColl'))
                 ELSE Commit(r, [f |-> [f EXCEPT !.pc = "process"],
                                 locks |-> generationLocks])
    /\ UNCHANGED <<db, transcripts, calls, edits>>

\* processTranscriptToVectorStore returns: it threw (the chunks persisted so
\* far stay), or all chunks are stored and updateOne is called
ProcessReturn(r) ==
    /\ Quiet
    /\ req[r].pc = "process"
    /\ LET f == req[r]
           id == CurrentId(r)
           content == TranscriptContent(f.transcript)
       IN  \E splitThrows \in BOOLEAN, persisted \in 0..Len(splitText(content)) :
              LET out == processTranscriptToVectorStore(embeddingsColl, id, content,
                                                        splitThrows, persisted)
              IN  /\ splitThrows => persisted = 0
                  /\ embeddingsColl' = out.store
                  /\ IF out.thrown
                     THEN Commit(r, Thrown(f, generationLocks, embeddingsColl',
                              IF splitThrows THEN "splitText failed"
                              ELSE "addDocuments failed",
                              IF splitThrows THEN "chunking" ELSE "persistence"))
                     ELSE Commit(r, [f |-> [f EXCEPT !.pc = "update",
                                                     !.chunksStored = out.chunksStored],
                                     locks |-> generationLocks])
    /\ UNCHANGED <<db, transcripts, calls, edits>>

\* collection.updateOne returns: it threw, or the metadata is written and the
\* generated outcome recorded; a request of several IDs then waits 500 ms
UpdateReturn(r) ==
    /\ Quiet
    /\ req[r].pc = "update"
    /\ LET f == req[r]
           id == CurrentId(r)
           content == TranscriptContent(f.transcript)
       IN  \/ /\ Commit(r, Thrown(f, generationLocks, embeddingsColl,
                                   "updateOne failed", "metadata"))
              /\ UNCHANGED transcripts
           \/ /\ transcripts' = UpdateMetadata(transcripts, id, content, f.chunksStored)
              /\ LET g == Ghost(Generated(f, id, content), "none")
                 IN  IF Len(f.body.ids) > 1
                     THEN Commit(r, [f |-> [g EXCEPT !.pc = "delay"],
                                     locks |-> generationLocks])
                     ELSE Commit(r, EndAttempt(g, generationLocks, embeddingsColl))
    /\ UNCHANGED <<db, embeddingsColl, calls, edits>>

\* the 500 ms timer fires
DelayReturn(r) ==
    /\ Quiet
    /\ req[r].pc = "delay"
    /\ Commit(r, EndAttempt(req[r], generationLocks, embeddingsColl))
    /\ UNCHANGED <<db, transcripts, embeddingsColl, calls, edits>>

\* the owner of a transcript rewrites its transcript_data
UpdateTranscript(id) ==
    /\ Quiet
    /\ id \in DOMAIN transcripts
    /\ edits < MaxEdits
    /\ \E data \in Data \ {transcripts[id].transcript_data} :
          transcripts' = [transcripts EXCEPT ![id].transcript_data = data]
    /\ edits' = edits + 1
    /\ lastGenerated' = NoId
    /\ after' = [r \in Handlers |-> NoId]
    /\ UNCHANGED <<generationLocks, db, embeddingsColl, req, calls, chat, statusReq, fn>>

\* res.json has written the response and the async handler has returned: its
\* frame is gone before the event loop runs any other callback
Close(r) ==
    /\ req[r].pc = "done"
    /\ req' = [req EXCEPT ![r] = Idle]
    /\ after' = [after EXCEPT ![r] = NoId]
    /\ UNCHANGED <<generationLocks, db, transcripts, embeddingsColl, calls, edits,
                   lastGenerated, chat, statusReq, fn>>

Step(r) ==
    \/ Connect(r)
    \/ GetDatabaseReturn(r)
    \/ FindOneReturn(r)
    \/ CheckReturn(r)
    \/ RemoveReturn(r)
    \/ ProcessReturn(r)
    \/ UpdateReturn(r)
    \/ DelayReturn(r)

Next ==
    \/ \E r \in Handlers : Close(r)
    \/ \E r \in Handlers : Start(r)
    \/ \E r \in Handlers : Step(r)
    \/ \E id \in TranscriptIds : UpdateTranscript(id)

Spec == Init /\ [][Next]_vars

\* every call a handler awaits returns (or throws) in the end
FairSpec == Spec /\ \A r \in Handlers : WF_vars(Close(r) \/ Step(r))

\* ------------------------------------------------------------------ claims
InProgressMessage == "Embeddings already being generated for this transcript"
AlreadyExistsMessage == "Embeddings already exist in vector store"

\* another handler is between acquiring the lock for id and concluding
IngestedByOther(r, id) ==
    \E q \in Handlers \ {r} : InAttempt(q) /\ CurrentId(q) = id

\* in this step the attempt that handler r was running concludes
Concludes(r) ==
    /\ InAttempt(r)
    /\ ~(req'[r].pc \in AttemptPcs /\ req'[r].i = req[r].i)

\* in this step handler r records `skipped: already exist` for its current ID
SkipsAsExisting(r) ==
    /\ InAttempt(r)
    /\ Len(req'[r].results) > Len(req[r].results)
    /\ req'[r].results[Len(req[r].results) + 1].message = AlreadyExistsMessage

\* the chunk c of a store belongs to a set 0..chunkTotal-1 that is all there
InCompleteSet(store, c) ==
    \A k \in 0..(c.chunkTotal - 1) :
        \E e \in DOMAIN store :
            /\ e.transcriptId = c.transcriptId
            /\ e.chunkIndex = k
            /\ e.chunkTotal = c.chunkTotal
            /\ e.contentHash = c.contentHash

\* a complete chunk set is stored for id
HasCompleteSet(store, id) ==
    \E c \in DOMAIN store : c.transcriptId = id /\ InCompleteSet(store, c)

\* some chunks of id are stored, but only a part of their set
Partial(store, id) ==
    \E c \in DOMAIN store : c.transcriptId = id /\ ~InCompleteSet(store, c)

\* a complete chunk set is stored for id whose fingerprint is not that of the
\* transcript's current normalized text
Stale(id) ==
    /\ id \in DOMAIN transcripts
    /\ transcripts[id].transcript_data.json
    /\ ~IsBlank(TranscriptContent(transcripts[id].transcript_data))
    /\ ~Partial(embeddingsColl, id)
    /\ \E c \in DOMAIN embeddingsColl :
          /\ c.transcriptId = id
          /\ c.contentHash #
                generateContentHash(TranscriptContent(transcripts[id].transcript_data))

\* C1: no two ingestion attempts for the same document ID overlap: at no time
\* are two handlers both between lock acquisition and conclusion for one ID.
C1_NoOverlappingIngestion ==
    \A r, q \in Handlers :
        (r # q /\ InAttempt(r) /\ InAttempt(q)) => CurrentId(r) # CurrentId(q)

\* C2: the chunk store holds at most one chunk per (document ID, chunk index).
C2_NoDuplicateChunks ==
    \A c, e \in DOMAIN embeddingsColl :
        (c.transcriptId = e.transcriptId /\ c.chunkIndex = e.chunkIndex)
            => (c = e /\ embeddingsColl[c] = 1)

\* every lock entry belongs to an attempt that is still running
LocksOwned ==
    \A id \in generationLocks : \E r \in Handlers : InAttempt(r) /\ CurrentId(r) = id

\* C3: every attempt that acquired the lock concludes (a handler is again and
\* again outside every attempt, and its ID list is finite), on every outcome
\* its ID has left the lock set when it concludes (no lock entry outlives the
\* attempts running for its ID), and the lock set is empty whenever no
\* request is in flight.
C3_LockAlwaysReleased ==
    /\ [](LocksOwned /\ ((\A r \in Handlers : ~InFlight(r)) => generationLocks = {}))
    /\ \A r \in Handlers : []<>(~InAttempt(r))

\* C3 witness: a request has returned after an attempt of it ended on an
\* exception of the vector store, and the lock set is empty.
C3_Witness ==
    \E r \in Handlers :
        /\ req[r].pc = "done"
        /\ \E j \in 1..Len(req[r].failures) : req[r].failures[j] = "persistence"
        /\ generationLocks = {}

\* C4: a generate call for an ID that starts while another call's ingestion of
\* that ID is running records `skipped: already being generated` for it at
\* once, in the step that starts it, and issues no call for it.
C4_BusySkippedAtOnce ==
    [][\A r \in Handlers :
          \A n \in (req[r].processed + 1)..(req'[r].processed) :
              IngestedByOther(r, req'[r].body.ids[n]) =>
                  /\ Len(req'[r].results) >= n
                  /\ req'[r].results[n].status = "skipped"
                  /\ req'[r].results[n].message = InProgressMessage
                  /\ ~(req'[r].pc \in AttemptPcs /\ req'[r].i = n)]_vars

\* C5: of two successive generate calls for one unchanged document, the first
\* returning generated, the second leaves the document's chunks unchanged and
\* does not return generated again.  (The claim says more: the second call
\* returns `skipped: already exist`.  The formula lets it also report an
\* error, so that a failed load of the transcript does not count against the
\* claim; what refutes this formula refutes the claim.)
C5_SecondCallSkips ==
    [][\A r \in Handlers :
          (InFlight(r) /\ after[r] # NoId /\ req[r].body.ids = <<after[r]>>) =>
              /\ ChunksOf(embeddingsColl', after[r]) = ChunksOf(embeddingsColl, after[r])
              /\ req'[r].pc = "done" =>
                    /\ req'[r].response.code = 200
                    /\ \/ req'[r].results[1].status = "error"
                       \/ /\ req'[r].results[1].status = "skipped"
                          /\ req'[r].results[1].message = AlreadyExistsMessage]_vars

\* C6: no attempt ends with chunks that were stored for its document before
\* the attempt deleted while no complete chunk set is stored for the document.
\* (Stated for a document that had a complete chunk set when the attempt took
\* the lock: what refutes this refutes the claim.)
C6_NoChunksLost ==
    [][\A r \in Handlers :
          Concludes(r) =>
              LET id == CurrentId(r)
                  now == ChunksOf(embeddingsColl', id)
              IN  (/\ HasCompleteSet(req[r].before, id)
                   /\ \E c \in DOMAIN req[r].before :
                         CopiesIn(c, now) < req[r].before[c])
                      => HasCompleteSet(now, id)]_vars

\* C7: generate does not return `skipped: already exist` for a document
\* whose stored chunks carry another fingerprint than its current text.
C7_StaleNotSkipped ==
    [][\A r \in Handlers : SkipsAsExisting(r) => ~Stale(CurrentId(r))]_vars

\* C8: generate does not skip as already embedded a document of which an
\* earlier failed attempt left only a part of the chunks.
C8_PartialReingested ==
    [][\A r \in Handlers :
          SkipsAsExisting(r) => ~Partial(embeddingsColl, CurrentId(r))]_vars

\* C9: a failure while one ID is processed is recorded as the error outcome
\* of that ID and of no other; the loop goes on, and the request returns one
\* result per ID with the summary.
C9_FailureIsolated ==
    \A r \in Handlers :
        LET f == req[r] IN
        /\ Len(f.failures) = Len(f.results)
        /\ \A j \in 1..Len(f.results) :
              /\ f.results[j].transcriptId = f.body.ids[j]
              /\ f.failures[j] # "none" <=> f.results[j].status = "error"
        /\ (f.pc = "done" /\ f.processed > 0) =>
              /\ f.response.code = 200
              /\ f.response.results = f.results
              /\ Len(f.results) = Len(f.body.ids)
              /\ f.response.summary.processed = Len(f.body.ids)

\* C9 witness: a request of two IDs has returned; the vector store threw on
\* the first ID, and the second ID was generated.
C9_Witness ==
    \E r \in Handlers :
        /\ req[r].pc = "done"
        /\ req[r].response.code = 200
        /\ Len(req[r].body.ids) = 2
        /\ req[r].failures[1] = "persistence"
        /\ req[r].response.results[1].status = "error"
        /\ req[r].response.results[2].status = "generated"

\* the response lists one result per requested ID, in request order, and its
\* summary adds up
OnePerId(f) ==
    /\ f.response.code = 200
    /\ Len(f.response.results) = Len(f.body.ids)
    /\ \A j \in 1..Len(f.body.ids) : f.response.results[j].transcriptId = f.body.ids[j]
    /\ f.response.summary.processed = Len(f.body.ids)
    /\ f.response.summary.processed =
          f.response.summary.generated + f.response.summary.skipped
              + f.response.summary.errors

\* C10 as stated: on every path of a request with an ID array, the response
\* has one result per requested ID, in request order, and processed =
\* generated + skipped + errors = the number of IDs.  (Stated for arrays that
\* name at least one ID: what refutes this refutes the claim.)
C10_OnePerIdOnEveryPath ==
    \A r \in Handlers :
        (req[r].pc = "done" /\ req[r].body.isArray /\ Len(req[r].body.ids) > 0)
            => OnePerId(req[r])

\* C10 amended: the same on every path on which the handler gets the database
\* connection; when the connection fails the response is the 500 error, with
\* no results, and no ID has been processed.
C10_OnePerIdOnceConnected ==
    \A r \in Handlers :
        (req[r].pc = "done" /\ req[r].body.isArray) =>
            \/ OnePerId(req[r])
            \/ /\ req[r].response.code = 500
               /\ req[r].processed = 0
               /\ req[r].results = <<>>

\* C10 witness: a request of two IDs has returned one error and one generated
\* outcome.
C10_Witness ==
    \E r \in Handlers :
        /\ req[r].pc = "done"
        /\ Len(req[r].body.ids) = 2
        /\ req[r].response.code = 200
        /\ req[r].response.summary.errors = 1
        /\ req[r].response.summary.generated = 1

NotFoundMessage == "Transcript not found"

\* in this step handler r goes on from the await at which it stood
Resumes(r) == req'[r] # req[r]

\* after this step the lock for id is not held, unless handler r took it
\* again for a later position of its ID list
ReleasedBy(r, id) ==
    id \in generationLocks' =>
        /\ req'[r].pc \in AttemptPcs
        /\ req'[r].i > req[r].i
        /\ req'[r].body.ids[req'[r].i] = id

\* C11: when the load of an ID that has no transcript returns, the error
\* outcome is recorded for that ID ('Transcript not found', unless the load
\* itself threw), the lock the attempt acquired is released, and the chunk
\* store and every transcript are unchanged.
C11_NotFoundIsError ==
    [][\A r \in Handlers :
          (/\ req[r].pc = "findOne"
           /\ Resumes(r)
           /\ CurrentId(r) \notin DOMAIN transcripts) =>
              LET n == req[r].i
                  id == CurrentId(r)
              IN  /\ Len(req'[r].results) >= n
                  /\ req'[r].results[n].transcriptId = id
                  /\ req'[r].results[n].status = "error"
                  /\ req'[r].failures[n] = "not-found" =>
                        req'[r].results[n].message = NotFoundMessage
                  /\ req'[r].errors = req[r].errors + 1
                  /\ ReleasedBy(r, id)
                  /\ embeddingsColl' = embeddingsColl
                  /\ transcripts' = transcripts]_vars

\* C11 witness: a request for an ID without transcript has returned the
\* error 'Transcript not found', and no lock is held.
C11_Witness ==
    \E r \in Handlers :
        /\ req[r].pc = "done"
        /\ req[r].response.code = 200
        /\ Len(req[r].body.ids) > 0
        /\ req[r].body.ids[1] \notin DOMAIN transcripts
        /\ req[r].response.results[1].status = "error"
        /\ req[r].response.results[1].message = NotFoundMessage
        /\ generationLocks = {}

NoIngestion(id) == \A r \in Handlers : ~(InAttempt(r) /\ CurrentId(r) = id)

\* the chunks of id in a store are none, or exactly one chunk for each index
\* 0..chunkTotal-1, all with one chunkTotal and one fingerprint
WellFormedChunks(store, id) ==
    LET mine == {c \in DOMAIN store : c.transcriptId = id} IN
    \A c \in mine :
        /\ store[c] = 1
        /\ c.chunkIndex \in 0..(c.chunkTotal - 1)
        /\ \A e \in mine :
              /\ e.chunkTotal = c.chunkTotal
              /\ e.contentHash = c.contentHash
              /\ e.chunkIndex = c.chunkIndex => e = c
        /\ \A k \in 0..(c.chunkTotal - 1) : \E e \in mine : e.chunkIndex = k

\* C13: whenever no ingestion of a document is in progress, its stored chunks
\* have the indices 0..chunkTotal-1, each once, and share one chunkTotal and
\* one content fingerprint.
C13_ChunksContiguous ==
    \A id \in TranscriptIds :
        NoIngestion(id) => WellFormedChunks(embeddingsColl, id)

\* in this step handler r records the generated outcome for its current ID
RecordsGenerated(r) ==
    /\ req[r].pc = "update"
    /\ Len(req'[r].results) >= req[r].i
    /\ req'[r].results[req[r].i].status = "generated"

\* after this step the transcript id records the ingestion of n chunks, and
\* has no legacy embeddings field
MetadataRecorded(id, n) ==
    /\ id \in DOMAIN transcripts'
    /\ transcripts'[id].embeddingMetadata # NoMeta
    /\ transcripts'[id].embeddingMetadata.model = EmbeddingModel
    /\ transcripts'[id].embeddingMetadata.generatedAt
    /\ transcripts'[id].embeddingMetadata.lastUpdated
    /\ transcripts'[id].embeddingMetadata.chunksStored = n
    /\ ~transcripts'[id].embeddings

\* C14: when generate records generated with n chunks for a document, the
\* document's metadata records the model, the timestamps and chunksStored = n,
\* the document has no legacy embeddings field, and n chunks are stored for
\* the document.
C14_GeneratedMatchesStore ==
    [][\A r \in Handlers :
          RecordsGenerated(r) =>
              LET id == CurrentId(r)
                  n == req'[r].results[req[r].i].chunksStored
              IN  /\ MetadataRecorded(id, n)
                  /\ BagCardinality(ChunksOf(embeddingsColl', id)) = n]_vars

\* the part of C14 about the document record alone
C14_MetadataPart ==
    [][\A r \in Handlers :
          RecordsGenerated(r) =>
              MetadataRecorded(CurrentId(r), req'[r].results[req[r].i].chunksStored)]_vars

\* ====================================================== the chat route
\* router.post('/message'): three search strategies over the chunk store run
\* concurrently (Promise.all), their hits are merged, deduplicated and cut,
\* the context is formatted and the answer generated.  Texts and messages are
\* strings; the regular expressions of the code are evaluated on them.

\* ----------------------------------------------------------------- strings
Char(s, i) == SubSeq(s, i, i)
LowerCase == "abcdefghijklmnopqrstuvwxyz"
UpperCase == "ABCDEFGHIJKLMNOPQRSTUVWXYZ"
DigitChars == {"0", "1", "2", "3", "4", "5", "6", "7", "8", "9"}
LetterChars == {Char(LowerCase, i) : i \in 1..Len(LowerCase)}
                   \cup {Char(UpperCase, i) : i \in 1..Len(UpperCase)}

ToLowerChar(c) ==
    IF \E i \in 1..Len(UpperCase) : Char(UpperCase, i) = c
    THEN Char(LowerCase, CHOOSE i \in 1..Len(UpperCase) : Char(UpperCase, i) = c)
    ELSE c

\* String.prototype.toLowerCase
RECURSIVE toLowerCase(_)
toLowerCase(s) ==
    IF Len(s) = 0 THEN ""
    ELSE ToLowerChar(Char(s, 1)) \o toLowerCase(SubSeq(s, 2, Len(s)))

\* \w at position i of s (no character outside the string is a word character)
WordCharAt(s, i) ==
    /\ i \in 1..Len(s)
    /\ Char(s, i) \in LetterChars \cup DigitChars \cup {"_"}

\* \b between the positions i-1 and i of s
Boundary(s, i) == WordCharAt(s, i - 1) # WordCharAt(s, i)

\* the literal t stands at position i of s, letter case ignored (flag i)
LiteralAt(s, i, t) ==
    /\ i >= 1
    /\ i + Len(t) - 1 <= Len(s)
    /\ toLowerCase(SubSeq(s, i, i + Len(t) - 1)) = toLowerCase(t)

\* /t/i matches somewhere in s
Contains(s, t) == \E i \in 1..(Len(s) + 1) : LiteralAt(s, i, t)

\* /\b(w1|w2|...)\b/i matches somewhere in s
TestWords(s, words) ==
    \E i \in 1..Len(s), w \in words :
        /\ Boundary(s, i)
        /\ LiteralAt(s, i, w)
        /\ Boundary(s, i + Len(w))

\* /\ba.*b\b/i matches somewhere in s (a one-line string)
TestSpan(s, a, b) ==
    \E i \in 1..Len(s), j \in 1..Len(s) :
        /\ j >= i + Len(a)
        /\ Boundary(s, i)
        /\ LiteralAt(s, i, a)
        /\ LiteralAt(s, j, b)
        /\ Boundary(s, j + Len(b))

\* the end position of the match of \b(?:sp|SP)[-\s]?\d+\b that starts at
\* position i of s, as a set (empty: no match starts there); ignoreCase is
\* the flag i.  The separator and the digits are greedy, and the final \b
\* admits only the whole run of digits.
TaskRefEnd(s, i, ignoreCase) ==
    LET sep == IF i + 2 <= Len(s) /\ Char(s, i + 2) \in {"-", " "} THEN 1 ELSE 0
        d == i + 2 + sep
    IN  {e \in d..Len(s) :
            /\ Boundary(s, i)
            /\ IF ignoreCase THEN LiteralAt(s, i, "sp")
               ELSE i + 1 <= Len(s) /\ SubSeq(s, i, i + 1) \in {"sp", "SP"}
            /\ \A k \in d..e : Char(s, k) \in DigitChars
            /\ Boundary(s, e + 1)}

\* /\b(?:sp|SP)[-\s]?\d+\b/ with $options 'i' matches somewhere in s
HasTaskRef(s) == \E i \in 1..Len(s) : TaskRefEnd(s, i, TRUE) # {}

\* query.match(/\b(?:sp|SP)[-\s]?\d+\b/g) || []: the matched substrings
spMatches(query) ==
    {SubSeq(query, i, e) : <<i, e>> \in
        {p \in (1..Len(query)) \X (1..Len(query)) :
            p[2] \in TaskRefEnd(query, p[1], FALSE)}}

\* String.prototype.split(' ')
RECURSIVE split(_)
split(s) ==
    IF \A i \in 1..Len(s) : Char(s, i) # " " THEN <<s>>
    ELSE LET i == CHOOSE k \in 1..Len(s) :
                     /\ Char(s, k) = " "
                     /\ \A j \in 1..(k - 1) : Char(s, j) # " "
         IN  <<SubSeq(s, 1, i - 1)>> \o split(SubSeq(s, i + 1, Len(s)))

\* the words a task query is recognised by (besides a literal sp-123)
TaskVocabulary ==
    {"task", "tasks", "ticket", "tickets", "item", "items", "work", "todo",
     "assignment"}

\* the words the keyword search looks for in a task query
TaskKeywords ==
    {"task", "ticket", "item", "assignment", "todo", "work", "status",
     "progress", "update", "complete", "done", "pending"}

\* /\b(task|tasks|sp[-\s]?\d+|ticket|...)\b/i.test(message)
isTaskQuery(message) ==
    \/ TestWords(message, TaskVocabulary)
    \/ HasTaskRef(message)

\* /\b(each meeting|each transcript|separate|...)\b/i.test(message)
isMeetingSpecificQuery(message) ==
    \/ TestWords(message, {"each meeting", "each transcript", "separate",
                           "individual", "per meeting"})
    \/ TestSpan(message, "meeting", "separate")
    \/ TestSpan(message, "summary", "each")
    \/ TestSpan(message, "each", "summary")

\* query.toLowerCase().split(' ').filter(term => term.length > 2)
searchTerms(query) ==
    LET LongEnough(term) == Len(term) > 2
    IN  SelectSeq(split(toLowerCase(query)), LongEnough)

\* ---------------------------------------------------- the chunks searched
MaxMessages == 1   \* message requests made in one behaviour
MaxChunks == 3     \* documents in a chunk store that is read in any order
BulkTasks == 22    \* chunks of the large store that hold an SP-123 reference
BulkDone == 6      \* chunks of the large store that hold a task keyword
BulkPlain == 4     \* the other chunks of the large store

\* the transcript IDs a message request may name
ChatIds == {"t1", "t2", "t3"}

\* a document of transcript_embeddings as the searches read it
ChunkDoc(transcriptId, date, chunkIndex, text) ==
    [transcriptId |-> transcriptId, meetingId |-> "m-" \o transcriptId,
     date |-> date, chunkIndex |-> chunkIndex, text |-> text]

\* the chunks of three transcripts; the second chunk of "t1" and the chunk
\* of "t2" have the same text, and the meetings of "t1" and "t3" were held
\* on the same day
StoredChunks ==
    {ChunkDoc("t1", "2025-09-15", 0, "alice: SP-42 shipped"),
     ChunkDoc("t1", "2025-09-15", 1, "bob: budget is done"),
     ChunkDoc("t2", "2025-09-16", 0, "bob: budget is done"),
     ChunkDoc("t3", "2025-09-15", 0, "carol: all fine")}

\* the chunks of a large store: a transcript of BulkTasks chunks that each
\* name a task, a meeting of the same day whose BulkDone chunks hold a task
\* keyword, and a meeting of the next day of BulkPlain chunks
BulkChunks ==
    {ChunkDoc("t1", "2025-09-15", k - 1, "SP-" \o ToString(k) \o " open") :
        k \in 1..BulkTasks}
    \cup {ChunkDoc("t2", "2025-09-15", k - 1, "point " \o ToString(k) \o " is done") :
              k \in 1..BulkDone}
    \cup {ChunkDoc("t3", "2025-09-16", k - 1, "budget line " \o ToString(k)) :
              k \in 1..BulkPlain}

\* the chunk stores of a behaviour: up to MaxChunks of these chunks
ChatStores ==
    {SetToBag(chunks) : chunks \in {S \in SUBSET StoredChunks :
                                       Cardinality(S) <= MaxChunks}}

\* the messages of a request: a task query, a query that names a task, a
\* plain query, a query about each meeting, a task query about each meeting,
\* and the empty message
Messages ==
    {"what tasks were discussed", "status of SP-42", "budget",
     "budget summary of each meeting", "tasks of each meeting", ""}

\* The regular expressions are evaluated once for every message and every
\* chunk text, and looked up from then on.
ChunkTexts == {d.text : d \in StoredChunks \cup BulkChunks}
\* TaskQueries if every message were a task query
TaskQueriesEveryMessage == Messages

\* the messages for which isTaskQuery is true
TaskQueries == {m : m \in {q \in Messages : isTaskQuery(q)}}
\* the messages for which isMeetingSpecificQuery is true
MeetingSpecificQueries == {m : m \in {q \in Messages : isMeetingSpecificQuery(q)}}
\* the texts that hold an SP-123 reference
TaskRefTexts == {t : t \in {u \in ChunkTexts : HasTaskRef(u)}}

\* the stored documents of a chunk store; a document is known by its _id
StoredDocs(store) ==
    UNION {{[doc |-> c, id |-> k] : k \in 1..store[c]} : c \in DOMAIN store}

\* the sequences of n different elements of S
RECURSIVE Arrangements(_, _)
Arrangements(S, n) ==
    IF n = 0 THEN {<<>>}
    ELSE UNION {{Append(s, x) : x \in S \ {s[k] : k \in 1..Len(s)}} :
                    s \in Arrangements(S, n - 1)}

Min(a, b) == IF a < b THEN a ELSE b

\* the place of a document in the order of insertion: the transcripts in
\* the order of their IDs, the chunks of a transcript in chunk order
InsertionRank(d) ==
    d.doc.chunkIndex + (BulkTasks + BulkDone + BulkPlain + 1)
        * (CASE d.doc.transcriptId = "t1" -> 0
             [] d.doc.transcriptId = "t2" -> 1
             [] d.doc.transcriptId = "t3" -> 2)

\* the documents of S in the order of insertion, or in its reverse
RECURSIVE Inserted(_, _)
Inserted(S, reverse) ==
    IF S = {} THEN <<>>
    ELSE LET first == CHOOSE d \in S : \A o \in S : InsertionRank(d) <= InsertionRank(o)
         IN  IF reverse THEN Append(Inserted(S \ {first}, reverse), first)
             ELSE <<first>> \o Inserted(S \ {first}, reverse)

\* the orders in which a query may return the documents S: any order for up
\* to MaxChunks documents; more documents come in the order of insertion or
\* in its reverse
Orders(S) ==
    IF Cardinality(S) <= MaxChunks THEN Arrangements(S, Cardinality(S))
    ELSE {Inserted(S, reverse) : reverse \in BOOLEAN}

\* collection.find(query).limit(n).toArray(): the matching documents, each
\* once, at most n of them, in an order the query does not determine
Find(matching, n) == {SubSeq(docs, 1, Min(n, Len(docs))) : docs \in Orders(matching)}

TaskScore == 95      \* similarity 0.95, in hundredths
KeywordScore == 90   \* similarity 0.9
VectorScore == 80    \* similarity 0.8
TaskLimit == 20
KeywordQueryLimit == 10
KeywordLimit == 15

\* docs.map(doc => ({transcriptId, meetingId, date, content, chunkIndex,
\* similarity})): the hit of a stored document
Hit(d, similarity) ==
    [transcriptId |-> d.doc.transcriptId, meetingId |-> d.doc.meetingId,
     date |-> d.doc.date, content |-> d.doc.text,
     chunkIndex |-> d.doc.chunkIndex, similarity |-> similarity]

Hits(docs, similarity) == [k \in 1..Len(docs) |-> Hit(docs[k], similarity)]

\* slice(0, n) that cuts nothing
FirstNKeepsAll(s, n) == s

FirstN(s, n) == SubSeq(s, 1, Min(n, Len(s)))

\* ------------------------------------------------------- the strategies
\* searchAllTaskReferences: the chunks of the requested transcripts that
\* hold an SP-123 reference; the possible return values
searchAllTaskReferences(store, transcriptIds) ==
    {Hits(taskDocs, TaskScore) :
        taskDocs \in Find({d \in StoredDocs(store) :
                              /\ d.doc.transcriptId \in transcriptIds
                              /\ d.doc.text \in TaskRefTexts}, TaskLimit)}

\* searchKeywordContent: the queries it builds for a message
searchQueries(query) ==
    (IF isTaskQuery(query) THEN <<"taskRefs", "taskKeywords">> ELSE <<>>)
        \o (IF spMatches(query) # {} THEN <<"mentioned">> ELSE <<>>)
        \o (IF searchTerms(query) # <<>> THEN <<"terms">> ELSE <<>>)

\* the text satisfies the $regex of one of these queries
QueryMatches(kind, query, text) ==
    CASE kind = "taskRefs" -> HasTaskRef(text)
      [] kind = "taskKeywords" -> TestWords(text, TaskKeywords)
      [] kind = "mentioned" -> \E m \in spMatches(query) : Contains(text, m)
      [] kind = "terms" ->
            \E k \in 1..Len(searchTerms(query)) : Contains(text, searchTerms(query)[k])

QueryKinds == {"taskRefs", "taskKeywords", "mentioned", "terms"}
\* the queries of every message, and what each of them matches
KeywordQueries == {<<m, searchQueries(m)>> : m \in Messages}
KeywordMatches ==
    {p : p \in {q \in QueryKinds \X Messages \X ChunkTexts :
                   QueryMatches(q[1], q[2], q[3])}}

\* for (const query of searchQueries) allResults.push(...docs): the possible
\* values of allResults
RECURSIVE allResults(_, _, _, _)
allResults(queries, query, store, transcriptIds) ==
    IF queries = <<>> THEN {<<>>}
    ELSE {docs \o rest :
            docs \in Find({d \in StoredDocs(store) :
                              /\ d.doc.transcriptId \in transcriptIds
                              /\ <<Head(queries), query, d.doc.text>> \in KeywordMatches},
                          KeywordQueryLimit),
            rest \in allResults(Tail(queries), query, store, transcriptIds)}

\* allResults.filter((doc, index, self) => index === self.findIndex(d =>
\* d._id.toString() === doc._id.toString()))
RECURSIVE uniqueDocs(_)
uniqueDocs(docs) ==
    IF docs = <<>> THEN <<>>
    ELSE LET front == uniqueDocs(SubSeq(docs, 1, Len(docs) - 1))
             last == docs[Len(docs)]
         IN  IF \E k \in 1..(Len(docs) - 1) : docs[k] = last
             THEN front ELSE Append(front, last)

\* searchKeywordContent: the possible return values
searchKeywordContent(store, query, transcriptIds) ==
    LET queries == (CHOOSE p \in KeywordQueries : p[1] = query)[2] IN
    IF queries = <<>> THEN {<<>>}
    ELSE {Hits(FirstN(uniqueDocs(all), KeywordLimit), KeywordScore) :
            all \in allResults(queries, query, store, transcriptIds)}

\* filteredDocs without the filter
unfilteredDocs(docs, transcriptIds, maxResults) == FirstN(docs, maxResults)

\* docs.filter(doc => transcriptIds.includes(doc.metadata.transcriptId))
\*     .slice(0, maxResults)
filteredDocs(docs, transcriptIds, maxResults) ==
    LET Requested(d) == d.doc.transcriptId \in transcriptIds
    IN  FirstN(SelectSeq(docs, Requested), maxResults)

\* retriever.getRelevantDocuments(query): up to k stored documents, the most
\* similar first; which documents these are is the vector index's matter
getRelevantDocuments(store, k) ==
    LET docs == StoredDocs(store) IN
    IF Cardinality(docs) <= MaxChunks
    THEN UNION {Arrangements(docs, n) : n \in 0..Min(k, Cardinality(docs))}
    ELSE Find(docs, k)

\* searchSimilarContent: the possible return values
searchSimilarContent(store, transcriptIds, maxResults) ==
    {Hits(filteredDocs(docs, transcriptIds, maxResults), VectorScore) :
        docs \in getRelevantDocuments(store, maxResults * 3)}

\* ------------------------------------------------- merge and formatting
\* combinedResults with the vector hits first
combinedResultsVectorFirst(taskQuery, taskResults, keywordResults, vectorResults) ==
    vectorResults \o keywordResults \o taskResults

\* isTaskQuery ? [...taskResults, ...keywordResults, ...vectorResults]
\*             : [...keywordResults, ...vectorResults]
combinedResults(taskQuery, taskResults, keywordResults, vectorResults) ==
    IF taskQuery
    THEN taskResults \o keywordResults \o vectorResults
    ELSE keywordResults \o vectorResults

\* uniqueResults without the filter
uniqueResultsKeepsAll(results) == results

\* uniqueResults that keeps the last hit of a text instead of the first
uniqueResultsKeepsLast(results) ==
    LET n == Len(results)
        Keep(i) == \A k \in (i + 1)..n : results[k].content # results[i].content
        F[i \in 0..n] ==
            IF i = 0 THEN <<>>
            ELSE IF Keep(i) THEN Append(F[i - 1], results[i]) ELSE F[i - 1]
    IN  F[n]

\* combinedResults.filter((result, index, self) =>
\*     index === self.findIndex(r => r.content === result.content))
uniqueResults(results) ==
    LET n == Len(results)
        First(i) == \A k \in 1..(i - 1) : results[k].content # results[i].content
        F[i \in 0..n] ==
            IF i = 0 THEN <<>>
            ELSE IF First(i) THEN Append(F[i - 1], results[i]) ELSE F[i - 1]
    IN  F[n]

\* isMeetingSpecificQuery ? 10 : 5
vectorResultsCount(meetingSpecific) == IF meetingSpecific THEN 10 ELSE 5

\* maxFinalResults without a cut: more than the strategies can return
maxFinalResultsUncut(meetingSpecific) == TaskLimit + KeywordLimit + 10

\* isMeetingSpecificQuery ? 25 : 15
maxFinalResults(meetingSpecific) == IF meetingSpecific THEN 25 ELSE 15

\* the three lists of hits as Promise.all hands them over: a strategy that
\* was not launched counts as [] (taskResults = [])
Fuse(taskQuery, meetingSpecific, tasks, keywords, vectors) ==
    FirstN(uniqueResults(combinedResults(taskQuery, tasks, keywords, vectors)),
           maxFinalResults(meetingSpecific))

NoContentSentinel == "No relevant transcript content found for this query."

\* dateKeys in the order of last appearance
RECURSIVE dateKeysLastSeen(_)
dateKeysLastSeen(items) ==
    IF items = <<>> THEN <<>>
    ELSE LET rest == dateKeysLastSeen(Tail(items))
             date == Head(items).date
         IN  IF \E k \in 1..Len(rest) : rest[k] = date
             THEN rest ELSE <<date>> \o rest

\* the dates of a list of hits, each once, in the order of first appearance
\* (the keys of groupedByDate in insertion order)
RECURSIVE dateKeys(_)
dateKeys(items) ==
    IF items = <<>> THEN <<>>
    ELSE LET front == dateKeys(SubSeq(items, 1, Len(items) - 1))
             date == items[Len(items)].date
         IN  IF \E k \in 1..Len(front) : front[k] = date
             THEN front ELSE Append(front, date)

\* formatContext that numbers the hits of a date from 1
formatContextLocalIndex(similarContent) ==
    IF Len(similarContent) = 0 THEN NoContentSentinel
    ELSE LET keys == dateKeys(similarContent)
         IN  [g \in 1..Len(keys) |->
                 LET OfDate(hit) == hit.date = keys[g]
                     ofDate == SelectSeq(similarContent, OfDate)
                 IN  [header |-> keys[g],
                      content |-> [k \in 1..Len(ofDate) |->
                                      [sourceNum |-> k,
                                       content |-> ofDate[k].content,
                                       similarity |-> ofDate[k].similarity,
                                       date |-> ofDate[k].date]]]]

\* formatContext without the sentinel: an empty context for no hits
formatContextWithoutSentinel(similarContent) ==
    IF Len(similarContent) = 0 THEN ""
    ELSE LET numbered == [k \in 1..Len(similarContent) |->
                             [sourceNum |-> k,
                              content |-> similarContent[k].content,
                              similarity |-> similarContent[k].similarity,
                              date |-> similarContent[k].date]]
             keys == dateKeys(similarContent)
         IN  [g \in 1..Len(keys) |->
                 LET OfDate(section) == section.date = keys[g]
                 IN  [header |-> keys[g], content |-> SelectSeq(numbered, OfDate)]]

\* formatContext: the sentinel for no hits, else one section per date, each
\* with its hits in order; sourceNum is the position in similarContent
formatContext(similarContent) ==
    IF Len(similarContent) = 0 THEN NoContentSentinel
    ELSE LET numbered == [k \in 1..Len(similarContent) |->
                             [sourceNum |-> k,
                              content |-> similarContent[k].content,
                              similarity |-> similarContent[k].similarity,
                              date |-> similarContent[k].date]]
             keys == dateKeys(similarContent)
         IN  [g \in 1..Len(keys) |->
                 LET OfDate(section) == section.date = keys[g]
                 IN  [header |-> keys[g], content |-> SelectSeq(numbered, OfDate)]]

\* ----------------------------------------------------- the answer
\* what ragChain.invoke does: the call fails, or the StringOutputParser
\* hands over the text of the model
ModelCallFails == [thrown |-> TRUE, text |-> ""]
ModelText(text) == [thrown |-> FALSE, text |-> text]

\* the texts of the model: plain text, the empty text, a JSON object with an
\* answer (also after white space, and without a confidence), JSON that is
\* cut short, and a JSON object without an answer
ModelOutputs ==
    {ModelCallFails,
     ModelText("The budget was approved."),
     ModelText(""),
     ModelText("{\"answer\": \"Approved.\", \"confidence\": \"high\"}"),
     ModelText(" {\"answer\": \"Approved.\", \"confidence\": \"high\"}"),
     ModelText("{\"answer\": \"Approved.\"}"),
     ModelText("{\"answer\": \"Approved.\""),
     ModelText("{\"confidence\": \"high\"}")}

\* a property a JSON object does not have
Undefined == "undefined"

\* String.prototype.trim, for blanks
RECURSIVE trim(_)
trim(text) ==
    IF Len(text) = 0 THEN text
    ELSE IF SubSeq(text, 1, 1) = " " THEN trim(SubSeq(text, 2, Len(text)))
    ELSE IF SubSeq(text, Len(text), Len(text)) = " "
    THEN trim(SubSeq(text, 1, Len(text) - 1))
    ELSE text

\* JSON.parse of the texts of the model: white space around the value is
\* skipped; a text that is no JSON value makes it throw
JSONparse(text) ==
    LET value == trim(text) IN
    CASE value = "{\"answer\": \"Approved.\", \"confidence\": \"high\"}" ->
            [thrown |-> FALSE,
             parsed |-> [answer |-> "Approved.", confidence |-> "high",
                         sources_used |-> Undefined, follow_up_questions |-> Undefined]]
      [] value = "{\"answer\": \"Approved.\"}" ->
            [thrown |-> FALSE,
             parsed |-> [answer |-> "Approved.", confidence |-> Undefined,
                         sources_used |-> Undefined, follow_up_questions |-> Undefined]]
      [] value = "{\"confidence\": \"high\"}" ->
            [thrown |-> FALSE,
             parsed |-> [answer |-> Undefined, confidence |-> "high",
                         sources_used |-> Undefined, follow_up_questions |-> Undefined]]
      [] OTHER -> [thrown |-> TRUE]

\* the answer of the catch block of generateResponse
ErrorAnswer ==
    [answer |-> "I encountered an error while processing your request. Please try again or rephrase your question.",
     confidence |-> "low", sources_used |-> <<>>, follow_up_questions |-> <<>>]

\* generateResponse that lets a failed call of the model escape
generateResponseRethrows(output) ==
    IF output.thrown THEN [raised |-> TRUE]
    ELSE [raised |-> FALSE,
          value |-> [answer |-> output.text, confidence |-> "medium",
                     sources_used |-> <<>>, follow_up_questions |-> <<>>]]

\* generateResponse: the parsed JSON object if the text starts with a brace,
\* parses and has an answer; else the text as the answer; the answer of the
\* catch block if the call of the model failed.  `raised`: it threw
generateResponse(output) ==
    LET plain == [answer |-> output.text, confidence |-> "medium",
                  sources_used |-> <<>>, follow_up_questions |-> <<>>]
        json == JSONparse(output.text)
    IN  IF output.thrown THEN [raised |-> FALSE, value |-> ErrorAnswer]
        ELSE IF Len(trim(output.text)) > 0 /\ SubSeq(trim(output.text), 1, 1) = "{"
        THEN IF ~json.thrown /\ json.parsed.answer \notin {Undefined, ""}
             THEN [raised |-> FALSE, value |-> json.parsed]
             ELSE [raised |-> FALSE, value |-> plain]
        ELSE [raised |-> FALSE, value |-> plain]

\* the transcript IDs of a list of hits without the Set: one per hit
transcriptIdsPerHit(items) == [k \in 1..Len(items) |-> items[k].transcriptId]

\* the transcript IDs of a list of hits, each once ([...new Set(...)])
RECURSIVE uniqueTranscriptIds(_)
uniqueTranscriptIds(items) ==
    IF items = <<>> THEN <<>>
    ELSE LET front == uniqueTranscriptIds(SubSeq(items, 1, Len(items) - 1))
             id == items[Len(items)].transcriptId
         IN  IF \E k \in 1..Len(front) : front[k] = id
             THEN front ELSE Append(front, id)

\* res.json({success: true, ...})
MessageResponse(similarContent, aiResponse) ==
    LET ids == uniqueTranscriptIds(similarContent) IN
    [code |-> 200,
     response |-> IF aiResponse.answer # "" THEN aiResponse.answer
                  ELSE "I apologize, but I encountered an issue processing your request.",
     confidence |-> IF aiResponse.answer # "" /\ aiResponse.confidence # Undefined
                    THEN aiResponse.confidence ELSE "medium",
     sources |-> [k \in 1..Len(similarContent) |->
                     [transcriptId |-> similarContent[k].transcriptId,
                      date |-> similarContent[k].date,
                      similarity |-> similarContent[k].similarity,
                      chunkIndex |-> similarContent[k].chunkIndex]],
     transcripts |-> [k \in 1..Len(ids) |->
                         LET OfTranscript(item) == item.transcriptId = ids[k]
                         IN  [transcriptId |-> ids[k],
                              chunksUsed |-> Len(SelectSeq(similarContent, OfTranscript))]],
     contextUsed |-> Len(similarContent) > 0,
     chunksRetrieved |-> Len(similarContent)]

\* ------------------------------------------------ router.post('/message')
genVars == <<generationLocks, db, transcripts, embeddingsColl, req, calls, edits,
             lastGenerated, after, statusReq, fn>>

Launched(c) == {s \in {c.vector, c.keyword, c.task} : s.status # "none"}

\* Settled that merges as soon as the vector search has returned
SettledMergesEarly(c) ==
    IF c.pc # "searching" THEN c
    ELSE IF c.vector.status = "failed"
    THEN [c EXCEPT !.pc = "done",
                   !.response = [code |-> 500,
                                 error |-> "Failed to process chat message"]]
    ELSE IF c.vector.status = "running" THEN c
    ELSE LET fused == Fuse(c.isTaskQuery, c.isMeetingSpecificQuery,
                           c.task.hits, c.keyword.hits, c.vector.hits)
         IN  [c EXCEPT !.pc = "generating",
                       !.similarContent = fused,
                       !.context = formatContext(fused)]

\* Settled that merges the lists of hits in the order in which the
\* strategies settled
SettledInArrivalOrder(c) ==
    IF c.pc # "searching" THEN c
    ELSE IF c.vector.status = "failed"
    THEN [c EXCEPT !.pc = "done",
                   !.response = [code |-> 500,
                                 error |-> "Failed to process chat message"]]
    ELSE IF \E s \in Launched(c) : s.status = "running" THEN c
    ELSE LET n == Len(c.arrived)
             arrivedHits[k \in 1..n] == c[c.arrived[k]].hits
             third == IF n = 3 THEN arrivedHits[3] ELSE <<>>
             fused == Fuse(TRUE, c.isMeetingSpecificQuery,
                           arrivedHits[1], arrivedHits[2], third)
         IN  [c EXCEPT !.pc = "generating",
                       !.similarContent = fused,
                       !.context = formatContext(fused)]

\* a strategy has settled.  A rejected searchSimilarContent rejects
\* Promise.all at once: the catch block answers 500.  When every launched
\* strategy has returned, the hits are merged, the context is formatted and
\* generateResponse is called.  After the response, nothing happens.
Settled(c) ==
    IF c.pc # "searching" THEN c
    ELSE IF c.vector.status = "failed"
    THEN [c EXCEPT !.pc = "done",
                   !.response = [code |-> 500,
                                 error |-> "Failed to process chat message"]]
    ELSE IF \E s \in Launched(c) : s.status = "running" THEN c
    ELSE LET fused == Fuse(c.isTaskQuery, c.isMeetingSpecificQuery,
                           c.task.hits, c.keyword.hits, c.vector.hits)
         IN  [c EXCEPT !.pc = "generating",
                       !.similarContent = fused,
                       !.context = formatContext(fused)]

Running == [status |-> "running", hits |-> <<>>]
Returned(hits) == [status |-> "ok", hits |-> hits]
\* the strategy failed; searchKeywordContent and searchAllTaskReferences
\* catch the error and return []
Failed == [status |-> "failed", hits |-> <<>>]

MessageInit ==
    /\ generationLocks = {}
    /\ db = FALSE
    /\ transcripts = [id \in {"t1"} |-> Document(InitialData)]
    /\ embeddingsColl \in ChatStores
    /\ req = [r \in Handlers |-> Idle]
    /\ calls = 0
    /\ edits = 0
    /\ lastGenerated = NoId
    /\ after = [r \in Handlers |-> NoId]
    /\ chat = ChatIdle
    /\ statusReq = StatusIdle
    /\ fn = NoCall

\* a POST /message arrives: ChatMessageSchema.parse (a message of at least
\* one character, at least one transcript ID), then the strategies are
\* launched: vector and keyword search, and the task search for a task query
PostMessage ==
    /\ chat.pc = "idle"
    /\ chat.messages < MaxMessages
    /\ \E message \in Messages, transcriptIds \in SUBSET ChatIds :
          chat' =
              IF Len(message) = 0 \/ transcriptIds = {}
              THEN [chat EXCEPT !.pc = "done",
                                !.message = message,
                                !.transcriptIds = transcriptIds,
                                !.response = [code |-> 400,
                                              error |-> "Invalid request data"],
                                !.messages = @ + 1]
              ELSE [chat EXCEPT !.pc = "searching",
                                !.message = message,
                                !.transcriptIds = transcriptIds,
                                !.isTaskQuery = message \in TaskQueries,
                                !.isMeetingSpecificQuery =
                                    message \in MeetingSpecificQueries,
                                !.vector = Running,
                                !.keyword = Running,
                                !.task = IF message \in TaskQueries THEN Running
                                         ELSE NotLaunched,
                                !.messages = @ + 1]
    /\ UNCHANGED genVars

\* searchSimilarContent settles: it rethrows what it catches
VectorReturn ==
    /\ chat.vector.status = "running"
    /\ \/ chat' = Settled([chat EXCEPT !.vector = Failed, !.arrived = Append(@, "vector")])
       \/ \E hits \in searchSimilarContent(embeddingsColl, chat.transcriptIds,
                                           vectorResultsCount(chat.isMeetingSpecificQuery)) :
             chat' = Settled([chat EXCEPT !.vector = Returned(hits),
                                          !.arrived = Append(@, "vector")])
    /\ UNCHANGED genVars

\* searchKeywordContent settles
KeywordReturn ==
    /\ chat.keyword.status = "running"
    /\ \/ chat' = Settled([chat EXCEPT !.keyword = Failed, !.arrived = Append(@, "keyword")])
       \/ \E hits \in searchKeywordContent(embeddingsColl, chat.message,
                                           chat.transcriptIds) :
             chat' = Settled([chat EXCEPT !.keyword = Returned(hits),
                                          !.arrived = Append(@, "keyword")])
    /\ UNCHANGED genVars

\* searchAllTaskReferences settles
TaskReturn ==
    /\ chat.task.status = "running"
    /\ \/ chat' = Settled([chat EXCEPT !.task = Failed, !.arrived = Append(@, "task")])
       \/ \E hits \in searchAllTaskReferences(embeddingsColl, chat.transcriptIds) :
             chat' = Settled([chat EXCEPT !.task = Returned(hits),
                                          !.arrived = Append(@, "task")])
    /\ UNCHANGED genVars

\* generateChatResponse settles: on what generateResponse returns the
\* handler answers with res.json; an error it raised would be rethrown to
\* the catch block of the handler
GenerateReturn ==
    /\ chat.pc = "generating"
    /\ \E output \in ModelOutputs :
          LET aiResponse == generateResponse(output) IN
          chat' = [chat EXCEPT
                      !.pc = "done",
                      !.modelOutput = output,
                      !.aiResponse = aiResponse,
                      !.response =
                          IF aiResponse.raised
                          THEN [code |-> 500,
                                error |-> "Failed to process chat message"]
                          ELSE MessageResponse(chat.similarContent,
                                               aiResponse.value)]
    /\ UNCHANGED genVars

\* the handler has answered and every strategy it launched has settled
CloseMessage ==
    /\ chat.pc = "done"
    /\ \A s \in Launched(chat) : s.status # "running"
    /\ chat' = [ChatIdle EXCEPT !.messages = chat.messages]
    /\ UNCHANGED genVars

MessageNext ==
    \/ PostMessage
    \/ VectorReturn
    \/ KeywordReturn
    \/ TaskReturn
    \/ GenerateReturn
    \/ CloseMessage

MessageSpec == MessageInit /\ [][MessageNext]_vars

\* the same handler over the large store, where the limits of the searches
\* and of the merge cut lists short
BulkInit ==
    /\ generationLocks = {}
    /\ db = FALSE
    /\ transcripts = [id \in {"t1"} |-> Document(InitialData)]
    /\ embeddingsColl = SetToBag(BulkChunks)
    /\ req = [r \in Handlers |-> Idle]
    /\ calls = 0
    /\ edits = 0
    /\ lastGenerated = NoId
    /\ after = [r \in Handlers |-> NoId]
    /\ chat = ChatIdle
    /\ statusReq = StatusIdle
    /\ fn = NoCall

BulkSpec == BulkInit /\ [][MessageNext]_vars

\* the handler's own steps are taken when they can be; the searches are
\* calls to the database and to the embeddings service, awaited without a
\* timeout, and nothing makes them return
MessageFairSpec ==
    MessageSpec /\ WF_vars(GenerateReturn) /\ WF_vars(CloseMessage)

\* ================================================== router.get('/status')
MaxStatusRequests == 2   \* status requests made in one behaviour

\* the chunks processTranscriptToVectorStore stores for a transcript
StoredFor(id) ==
    LET documents == Documents(id, TranscriptContent(InitialData))
    IN  FirstK(documents, Len(documents))

\* the chunk store in which the transcripts of E are embedded
RECURSIVE StoreOf(_)
StoreOf(E) ==
    IF E = {} THEN EmptyBag
    ELSE LET id == CHOOSE x \in E : TRUE IN StoredFor(id) (+) StoreOf(E \ {id})

\* the transcripts collection with the documents of D, those of E embedded
TranscriptsOf(D, E) ==
    [id \in D |->
        IF id \in E
        THEN UpdateMetadata([t \in {id} |-> Document(InitialData)], id,
                            TranscriptContent(InitialData),
                            Len(splitText(TranscriptContent(InitialData))))[id]
        ELSE Document(InitialData)]

\* req.query.ids: absent, or a comma-separated list of IDs
NoIds == <<>>
StatusQueries == SeqsUpTo(TranscriptIds, MaxIds)

StatusInit ==
    /\ generationLocks = {}
    /\ db = FALSE
    /\ \E D \in SUBSET TranscriptIds, E \in SUBSET TranscriptIds :
          /\ E \subseteq D
          /\ transcripts = TranscriptsOf(D, E)
          /\ embeddingsColl = StoreOf(E)
    /\ req = [r \in Handlers |-> Idle]
    /\ calls = 0
    /\ edits = 0
    /\ lastGenerated = NoId
    /\ after = [r \in Handlers |-> NoId]
    /\ chat = ChatIdle
    /\ statusReq = StatusIdle
    /\ fn = NoCall

statusVars == <<generationLocks, transcripts, embeddingsColl, req, calls, edits,
                lastGenerated, after, chat, fn>>

\* a GET /status arrives and awaits getDatabase()
GetStatus ==
    /\ statusReq.pc = "idle"
    /\ statusReq.requests < MaxStatusRequests
    /\ \E ids \in StatusQueries :
          statusReq' = [statusReq EXCEPT !.pc = "connect", !.ids = ids,
                                   !.requests = @ + 1]
    /\ UNCHANGED <<db, statusVars>>

StatusError == [code |-> 500, error |-> "Failed to check embedding status"]

\* getDatabase returns or throws; if (!ids) the request is answered 400,
\* else the transcripts are looked up
StatusConnect ==
    /\ statusReq.pc = "connect"
    /\ \/ /\ ~db
          /\ statusReq' = [statusReq EXCEPT !.pc = "done", !.response = StatusError]
          /\ UNCHANGED db
       \/ /\ db' = TRUE
          /\ statusReq' =
                IF statusReq.ids = NoIds
                THEN [statusReq EXCEPT !.pc = "done",
                                    !.response = [code |-> 400,
                                                  error |-> "Transcript IDs are required"]]
                ELSE [statusReq EXCEPT !.pc = "find"]
    /\ UNCHANGED statusVars

\* collection.find({_id: {$in: objectIds}}).toArray() returns the documents
\* that exist, each once, or throws; the embeddings of each are then checked
StatusFind ==
    /\ statusReq.pc = "find"
    /\ \/ statusReq' = [statusReq EXCEPT !.pc = "done", !.response = StatusError]
       \/ \E found \in Find({id \in DOMAIN transcripts :
                                 \E k \in 1..Len(statusReq.ids) : statusReq.ids[k] = id},
                             MaxIds) :
             statusReq' = [statusReq EXCEPT !.pc = "check", !.found = found]
    /\ UNCHANGED <<db, statusVars>>

\* res.json({status, totalTranscripts, embeddedTranscripts, transcripts})
StatusResponse(embeddingStatus) ==
    LET Embedded(entry) == entry.hasEmbedding IN
    [code |-> 200,
     status |-> IF \A k \in 1..Len(embeddingStatus) : embeddingStatus[k].hasEmbedding
                THEN "ready" ELSE "partial",
     totalTranscripts |-> Len(embeddingStatus),
     embeddedTranscripts |-> Len(SelectSeq(embeddingStatus, Embedded)),
     transcripts |-> embeddingStatus]

\* Promise.all of checkExistingEmbeddings for the documents found has
\* resolved, each check having found a chunk, found none, or failed
StatusCheck ==
    /\ statusReq.pc = "check"
    /\ \E oks \in [1..Len(statusReq.found) -> BOOLEAN] :
          statusReq' =
              [statusReq EXCEPT
                  !.pc = "done",
                  !.response = StatusResponse(
                      [k \in 1..Len(statusReq.found) |->
                          [_id |-> statusReq.found[k],
                           hasEmbedding |->
                               checkExistingEmbeddings(embeddingsColl,
                                                       statusReq.found[k], oks[k])]])]
    /\ UNCHANGED <<db, statusVars>>

\* the response is sent
StatusClose ==
    /\ statusReq.pc = "done"
    /\ statusReq' = [StatusIdle EXCEPT !.requests = statusReq.requests]
    /\ UNCHANGED <<db, statusVars>>

StatusNext ==
    \/ GetStatus
    \/ StatusConnect
    \/ StatusFind
    \/ StatusCheck
    \/ StatusClose

StatusSpec == StatusInit /\ [][StatusNext]_vars

\* ==================================== the helper functions of the routes
MaxTextLen == 7     \* characters of a text that is chunked
MaxTokens == 1      \* chunkText(text, maxTokens): maxTokens
MaxVectors == 2     \* embeddings that are averaged
MaxDimension == 2   \* components of an embedding

\* the texts of up to n characters, of letters and blanks
RECURSIVE Texts(_)
Texts(n) ==
    IF n = 0 THEN {""}
    ELSE Texts(n - 1) \cup {t \o c : t \in {u \in Texts(n - 1) : Len(u) = n - 1},
                                     c \in {"a", " "}}

\* for (const word of words): the chunks pushed so far and currentChunk
RECURSIVE chunkWords(_, _, _, _)
chunkWords(words, chunks, currentChunk, limit) ==
    IF words = <<>>
    THEN IF currentChunk # "" THEN Append(chunks, currentChunk) ELSE chunks
    ELSE LET word == Head(words)
             testChunk == currentChunk \o (IF currentChunk # "" THEN " " ELSE "") \o word
         IN  IF Len(testChunk) > limit
             THEN IF currentChunk # ""
                  THEN chunkWords(Tail(words), Append(chunks, currentChunk), word, limit)
                  ELSE chunkWords(Tail(words),
                                  Append(chunks, SubSeq(word, 1, limit)), "", limit)
             ELSE chunkWords(Tail(words), chunks, testChunk, limit)

\* chunkText(text, maxTokens): one token is taken as 4 characters
chunkText(text, maxTokens) == chunkWords(split(text), <<>>, "", maxTokens * 4)

\* the embeddings the API may return: vectors of 1..MaxDimension components
Components == {0, 2}
Embeddings == UNION {[1..d -> Components] : d \in 1..MaxDimension}

\* a number that is not a number: undefined + 1, 0 / 0
NaN == [nan |-> TRUE]

Sum(vector) ==
    LET S[i \in 0..Len(vector)] == IF i = 0 THEN 0 ELSE S[i - 1] + vector[i]
    IN  S[Len(vector)]

\* generateEmbedding for a text that is chunked: the embeddings of the
\* chunks as the API returns them, or the API fails (the error is
\* rethrown); the average has the components of the first embedding, each a
\* quotient num / den, and NaN where an embedding has no such component
generateEmbedding(apiFails, embeddings) ==
    IF apiFails THEN [thrown |-> TRUE, error |-> "embeddings.create failed"]
    ELSE LET dimensions == Len(embeddings[1])
         IN  [thrown |-> FALSE,
              embedding |->
                  [i \in 1..dimensions |->
                      IF \E k \in 1..Len(embeddings) : Len(embeddings[k]) < i
                      THEN NaN
                      ELSE [nan |-> FALSE,
                            num |-> Sum([k \in 1..Len(embeddings) |-> embeddings[k][i]]),
                            den |-> Len(embeddings)]]]

\* the vectors cosineSimilarity is called with: equally long
Coordinates == {-1, 0, 1}
Vectors == [1..MaxDimension -> Coordinates]

\* cosineSimilarity(vecA, vecB): dotProduct / (magnitudeA * magnitudeB), the
\* magnitudes being given by their squares; 0 / 0 is NaN
cosineSimilarity(vecA, vecB) ==
    LET dotProduct == Sum([i \in 1..Len(vecA) |-> vecA[i] * vecB[i]])
        squareA == Sum([i \in 1..Len(vecA) |-> vecA[i] * vecA[i]])
        squareB == Sum([i \in 1..Len(vecB) |-> vecB[i] * vecB[i]])
    IN  IF squareA * squareB = 0 THEN NaN
        ELSE [nan |-> FALSE, dot |-> dotProduct,
              squareA |-> squareA, squareB |-> squareB]

\* a helper function is called with arguments of these sets
FnCalls ==
    {[name |-> "chunkText", text |-> text, maxTokens |-> maxTokens, done |-> FALSE] :
        text \in Texts(MaxTextLen), maxTokens \in 1..MaxTokens}
    \cup {[name |-> "generateEmbedding", apiFails |-> apiFails,
           embeddings |-> embeddings, done |-> FALSE] :
              apiFails \in BOOLEAN,
              embeddings \in SeqsUpTo(Embeddings, MaxVectors) \ {<<>>}}
    \cup {[name |-> "cosineSimilarity", vecA |-> vecA, vecB |-> vecB, done |-> FALSE] :
              vecA \in Vectors, vecB \in Vectors}

FnInit ==
    /\ generationLocks = {}
    /\ db = FALSE
    /\ transcripts = [id \in {"t1"} |-> Document(InitialData)]
    /\ embeddingsColl = EmptyBag
    /\ req = [r \in Handlers |-> Idle]
    /\ calls = 0
    /\ edits = 0
    /\ lastGenerated = NoId
    /\ after = [r \in Handlers |-> NoId]
    /\ chat = ChatIdle
    /\ statusReq = StatusIdle
    /\ fn \in FnCalls

fnVars == <<generationLocks, db, transcripts, embeddingsColl, req, calls, edits,
            lastGenerated, after, chat, statusReq>>

ChunkTextReturn ==
    /\ fn.name = "chunkText" /\ ~fn.done
    /\ fn' = [name |-> "chunkText", text |-> fn.text, maxTokens |-> fn.maxTokens,
              done |-> TRUE, chunks |-> chunkText(fn.text, fn.maxTokens)]
    /\ UNCHANGED fnVars

GenerateEmbeddingReturn ==
    /\ fn.name = "generateEmbedding" /\ ~fn.done
    /\ fn' = [name |-> "generateEmbedding", apiFails |-> fn.apiFails,
              embeddings |-> fn.embeddings, done |-> TRUE,
              result |-> generateEmbedding(fn.apiFails, fn.embeddings)]
    /\ UNCHANGED fnVars

CosineSimilarityReturn ==
    /\ fn.name = "cosineSimilarity" /\ ~fn.done
    /\ fn' = [name |-> "cosineSimilarity", vecA |-> fn.vecA, vecB |-> fn.vecB,
              done |-> TRUE, similarity |-> cosineSimilarity(fn.vecA, fn.vecB)]
    /\ UNCHANGED fnVars

FnNext ==
    \/ ChunkTextReturn
    \/ GenerateEmbeddingReturn
    \/ CosineSimilarityReturn

FnSpec == FnInit /\ [][FnNext]_vars

\* ------------------------------------------------- claims on the retrieval
\* every strategy the request launched has settled
AllSettled ==
    /\ chat.vector.status \in {"ok", "failed"}
    /\ \A s \in Launched(chat) : s.status \in {"ok", "failed"}

FailedStrategies == {s \in {"vector", "keyword", "task"} : chat[s].status = "failed"}

\* the three lists of hits, the highest priority first (a strategy that was
\* not launched, or that failed, has no hits)
StrategyHits == chat.task.hits \o chat.keyword.hits \o chat.vector.hits

InList(hits, content) == \E k \in 1..Len(hits) : hits[k].content = content

\* the position of the first hit of a list that has this content
FirstPosition(hits, content) ==
    CHOOSE k \in 1..Len(hits) :
        /\ hits[k].content = content
        /\ \A j \in 1..(k - 1) : hits[j].content # content

\* the request has merged the hits of its strategies
Merged == chat.pc = "generating" \/ (chat.pc = "done" /\ chat.response.code = 200)

\* C15: when exactly one launched strategy has failed and the others have
\* returned, the request is not answered with an error: the hits are merged,
\* the failed strategy counting as empty, and the fused result holds the
\* text of every hit of the other strategies and nothing else.
C15_OneFailureDegrades ==
    (AllSettled /\ Cardinality(FailedStrategies) = 1) =>
        /\ Merged
        /\ \A k \in 1..Len(StrategyHits) :
              InList(chat.similarContent, StrategyHits[k].content)
        /\ \A k \in 1..Len(chat.similarContent) :
              InList(StrategyHits, chat.similarContent[k].content)

\* C16: when every launched strategy has failed, the request is not
\* aborted: the formatted context is the sentinel and generateResponse is
\* invoked with it.
C16_TotalFailureStillAnswers ==
    (AllSettled /\ \A s \in Launched(chat) : s.status = "failed") =>
        /\ Merged
        /\ chat.context = NoContentSentinel

\* C17: no two entries of the fused result have the same chunk text.
C17_NoDuplicateText ==
    \A i, j \in 1..Len(chat.similarContent) :
        chat.similarContent[i].content = chat.similarContent[j].content => i = j

\* C17 witness: the hits are merged, and the task search and the keyword
\* search have both returned one and the same text.
C17_Witness ==
    /\ Merged
    /\ \E i \in 1..Len(chat.task.hits), j \in 1..Len(chat.keyword.hits) :
          chat.task.hits[i].content = chat.keyword.hits[j].content

\* C18: every hit of the fused result belongs to a requested transcript.
C18_OnlyRequestedTranscripts ==
    \A k \in 1..Len(chat.similarContent) :
        chat.similarContent[k].transcriptId \in chat.transcriptIds

\* C18 witness: the fused result has a hit whose text is also stored as a
\* chunk of a transcript that was not requested.
C18_Witness ==
    /\ Merged
    /\ \E k \in 1..Len(chat.similarContent), c \in DOMAIN embeddingsColl :
          /\ c.text = chat.similarContent[k].content
          /\ c.transcriptId \notin chat.transcriptIds

\* the priority of a text: 1 if the task search of a task query returned it,
\* else 2 if the keyword search returned it, else 3
Priority(content) ==
    IF chat.isTaskQuery /\ InList(chat.task.hits, content) THEN 1
    ELSE IF InList(chat.keyword.hits, content) THEN 2
    ELSE 3

\* the list of hits of the strategy of a priority
HitsOfPriority(p) ==
    IF p = 1 THEN chat.task.hits ELSE IF p = 2 THEN chat.keyword.hits
    ELSE chat.vector.hits

\* C19: in the fused result the task hits of a task query precede the hits
\* only the keyword and vector search returned, and the keyword hits precede
\* the hits only the vector search returned; the hits of one strategy keep
\* the order in which the strategy returned them.
C19_PriorityOrder ==
    \A i, j \in 1..Len(chat.similarContent) :
        i < j =>
            LET a == chat.similarContent[i].content
                b == chat.similarContent[j].content
            IN  /\ Priority(a) <= Priority(b)
                /\ Priority(a) = Priority(b) =>
                      FirstPosition(HitsOfPriority(Priority(a)), a)
                          < FirstPosition(HitsOfPriority(Priority(a)), b)

\* C19 witness: the fused result of a task query holds a task hit, then a
\* hit only the keyword search returned, then a hit only the vector search
\* returned.
C19_Witness ==
    /\ Merged
    /\ chat.isTaskQuery
    /\ Len(chat.similarContent) = 3
    /\ \A k \in 1..3 : Priority(chat.similarContent[k].content) = k

\* C20: the hit that survives for a text is the first hit with that text of
\* the highest-priority strategy that returned it, with that strategy's
\* score and metadata, and it stands where the text first occurs: after one
\* hit for each text that occurs before it in the lists of hits.
C20_FirstSeenSurvives ==
    \A i \in 1..Len(chat.similarContent) :
        LET content == chat.similarContent[i].content
            best == HitsOfPriority(Priority(content))
            first == FirstPosition(StrategyHits, content)
        IN  /\ chat.similarContent[i] = best[FirstPosition(best, content)]
            /\ i = 1 + Cardinality({StrategyHits[k].content : k \in 1..(first - 1)})

\* C20 witness: the hits are merged; the keyword search and the vector
\* search returned the same text from chunks of different transcripts.
C20_Witness ==
    /\ Merged
    /\ \E i \in 1..Len(chat.keyword.hits), j \in 1..Len(chat.vector.hits) :
          /\ chat.keyword.hits[i].content = chat.vector.hits[j].content
          /\ chat.keyword.hits[i].transcriptId # chat.vector.hits[j].transcriptId

\* the texts of a list of hits, each once, in the order of first occurrence
RECURSIVE FirstSeenTexts(_)
FirstSeenTexts(hits) ==
    IF hits = <<>> THEN <<>>
    ELSE LET front == FirstSeenTexts(SubSeq(hits, 1, Len(hits) - 1))
             content == hits[Len(hits)].content
         IN  IF \E k \in 1..Len(front) : front[k] = content
             THEN front ELSE Append(front, content)

C22_CompletionOrderIrrelevant ==
    Merged =>
        /\ chat.similarContent =
              FirstN(uniqueResults(StrategyHits),
                     maxFinalResults(chat.isMeetingSpecificQuery))
        /\ chat.context = formatContext(chat.similarContent)

\* C22 witness: the strategies of a task query completed in the reverse of
\* the priority order, the vector search first and the task search last;
\* the task search and the vector search returned different hits, and the
\* hits are merged.
C22_Witness ==
    /\ Merged
    /\ chat.arrived = <<"vector", "keyword", "task">>
    /\ chat.task.hits # <<>>
    /\ chat.vector.hits # <<>>
    /\ chat.vector.hits[1].content # chat.task.hits[1].content

Strategies == {"vector", "keyword", "task"}

\* C23: the strategies of a request are all started in one step, before
\* any of them has completed: a strategy starts only when none is in flight
\* or completed, and no other strategy has completed in that step; and the
\* hits are merged only when every launched strategy has completed.
C23_LaunchedTogetherMergedAfterAll ==
    /\ [](Merged => \A s \in Launched(chat) : s.status \in {"ok", "failed"})
    /\ [][\A s \in Strategies :
             (chat[s].status # "running" /\ chat'[s].status = "running") =>
                 \A t \in Strategies :
                     /\ chat[t].status = "none"
                     /\ chat'[t].status \in {"none", "running"}]_vars

\* C23 witness: the vector, the keyword and the task search are in flight
\* at the same time.
C23_Witness ==
    /\ chat.pc = "searching"
    /\ \A s \in Strategies : chat[s].status = "running"

\* the stored chunks of the requested transcripts whose text holds an
\* SP-123 reference
IdentifierChunks ==
    {d \in DOMAIN embeddingsColl :
        d.transcriptId \in chat.transcriptIds /\ d.text \in TaskRefTexts}

IdentifierHitFused ==
    \E k \in 1..Len(chat.similarContent) :
        /\ chat.similarContent[k].content \in TaskRefTexts
        /\ chat.similarContent[k].similarity = TaskScore

AllReturnedNothing ==
    /\ AllSettled
    /\ \A s \in Launched(chat) : s.status = "ok" /\ s.hits = <<>>

\* C26: when every launched strategy has returned without a hit, the
\* request does not fail: the hits are merged to the empty result, the
\* formatted context is the sentinel, generateResponse is called with it, and
\* the response is a 200 with contextUsed false and chunksRetrieved 0.
C26_NoHitsGivesSentinel ==
    AllReturnedNothing =>
        /\ Merged
        /\ chat.similarContent = <<>>
        /\ chat.context = NoContentSentinel
        /\ chat.pc = "done" =>
              /\ chat.response.code = 200
              /\ chat.response.contextUsed = FALSE
              /\ chat.response.chunksRetrieved = 0

\* C26 witness: the three strategies of a task query over a store that is
\* not empty have returned without a hit, and the request is answered.
C26_Witness ==
    /\ AllReturnedNothing
    /\ chat.isTaskQuery
    /\ embeddingsColl # EmptyBag
    /\ chat.pc = "done"

\* the position of the first hit of a list that has this date
FirstOfDate(hits, date) ==
    CHOOSE k \in 1..Len(hits) :
        /\ hits[k].date = date
        /\ \A j \in 1..(k - 1) : hits[j].date # date

\* C27: the formatted context of a fused result that is not empty has
\* exactly one heading for each date of its hits, whatever transcripts the
\* hits of a date belong to; the headings stand in the order in which
\* their dates first occur in the fused result, and under a heading stand
\* the hits of that date in the order of the fused result.
C27_OneHeadingPerDate ==
    (Merged /\ chat.similarContent # <<>>) =>
        LET hits == chat.similarContent
            sections == chat.context
        IN  /\ {sections[g].header : g \in 1..Len(sections)}
                  = {hits[k].date : k \in 1..Len(hits)}
            /\ \A g, h \in 1..Len(sections) :
                  g < h => FirstOfDate(hits, sections[g].header)
                              < FirstOfDate(hits, sections[h].header)
            /\ \A g \in 1..Len(sections) :
                  LET OfDate(hit) == hit.date = sections[g].header
                      ofDate == SelectSeq(hits, OfDate)
                  IN  /\ Len(sections[g].content) = Len(ofDate)
                      /\ \A k \in 1..Len(ofDate) :
                            /\ sections[g].content[k].content = ofDate[k].content
                            /\ sections[g].content[k].similarity = ofDate[k].similarity

\* C27 witness: the fused result holds a hit of 2025-09-15, then a hit of
\* 2025-09-16, then a hit of another transcript of 2025-09-15.
C27_Witness ==
    /\ Merged
    /\ Len(chat.similarContent) = 3
    /\ chat.similarContent[1].date = chat.similarContent[3].date
    /\ chat.similarContent[1].date # chat.similarContent[2].date
    /\ chat.similarContent[1].transcriptId # chat.similarContent[3].transcriptId

\* C28 as stated: under every heading of the formatted context the source
\* indices are 1, 2, ... in order, starting again at 1 under each heading.
C28_SourceIndexLocal ==
    (Merged /\ chat.similarContent # <<>>) =>
        \A g \in 1..Len(chat.context) :
            \A k \in 1..Len(chat.context[g].content) :
                chat.context[g].content[k].sourceNum = k

\* C28 amended: the source index of a hit is its position in the fused
\* result, counted from 1 over all dates: the hit at that position is the
\* hit emitted, and under a heading the indices increase.
C28_SourceIndexIsPosition ==
    (Merged /\ chat.similarContent # <<>>) =>
        \A g \in 1..Len(chat.context) :
            LET emitted == chat.context[g].content IN
            \A k \in 1..Len(emitted) :
                /\ emitted[k].sourceNum \in 1..Len(chat.similarContent)
                /\ chat.similarContent[emitted[k].sourceNum].content = emitted[k].content
                /\ chat.similarContent[emitted[k].sourceNum].date = chat.context[g].header
                /\ k > 1 => emitted[k - 1].sourceNum < emitted[k].sourceNum

\* C28 witness: the formatted context has two headings, and the first hit
\* under the second heading is the second hit of the fused result.
C28_Witness ==
    /\ Merged
    /\ Len(chat.similarContent) = 3
    /\ Len(chat.context) = 2
    /\ chat.context[2].content[1].sourceNum = 2

\* the IDs a status request names
RequestedIds == {statusReq.ids[k] : k \in 1..Len(statusReq.ids)}

\* C29: a status request that is answered 200 returns exactly one entry,
\* with its hasEmbedding flag, for every requested ID, and its status is
\* "ready" exactly when every requested ID has chunks in the chunk store,
\* and "partial" otherwise.
C29_StatusPerRequestedId ==
    (statusReq.pc = "done" /\ statusReq.response.code = 200) =>
        LET entries == statusReq.response.transcripts IN
        /\ \A id \in RequestedIds :
              Cardinality({k \in 1..Len(entries) : entries[k]._id = id}) = 1
        /\ statusReq.response.status =
              IF \A id \in RequestedIds :
                    \E c \in DOMAIN embeddingsColl : c.transcriptId = id
              THEN "ready" ELSE "partial"

\* C30: every request whose strategies have been launched is answered in
\* the end, even if a strategy never returns.
C30_RetrievalCompletes == (chat.pc = "searching") ~> (chat.pc = "done")

\* generateChatResponse has settled
GenerationReturned ==
    chat.pc = "done" /\ (chat.aiResponse.raised \/ "value" \in DOMAIN chat.aiResponse)

\* the texts of the model that are a JSON object with an answer
StructuredTexts ==
    {"{\"answer\": \"Approved.\", \"confidence\": \"high\"}",
     " {\"answer\": \"Approved.\", \"confidence\": \"high\"}",
     "{\"answer\": \"Approved.\"}"}

\* C31: generateResponse never raises an error.  It returns the parsed
\* object when the text of the model is a JSON object with an answer; any
\* other text is returned as the answer, with confidence "medium" and no
\* sources and follow-up questions; when the call of the model failed, it
\* returns the fixed error answer with confidence "low".
C31_GenerationNeverRaises ==
    GenerationReturned =>
        /\ ~chat.aiResponse.raised
        /\ LET output == chat.modelOutput
               value == chat.aiResponse.value
           IN  IF output.thrown
               THEN /\ value.answer = ErrorAnswer.answer
                    /\ value.confidence = "low"
               ELSE IF output.text \in StructuredTexts
               THEN /\ value.answer = "Approved."
                    /\ value.sources_used = Undefined
               ELSE /\ value.answer = output.text
                    /\ value.confidence = "medium"
                    /\ value.sources_used = <<>>
                    /\ value.follow_up_questions = <<>>

\* C31 witness: the model answered with JSON that is cut short, and the
\* request is answered 200 with that text.
C31_Witness ==
    /\ GenerationReturned
    /\ chat.modelOutput.text = "{\"answer\": \"Approved.\""
    /\ chat.response.code = 200
    /\ chat.response.response = chat.modelOutput.text

\* C32: when the embeddings to be averaged do not all have the same number
\* of components, generateEmbedding fails; it returns no average.
C32_DimensionMismatchFails ==
    (/\ fn.name = "generateEmbedding" /\ fn.done /\ ~fn.apiFails
     /\ \E j, k \in 1..Len(fn.embeddings) :
           Len(fn.embeddings[j]) # Len(fn.embeddings[k]))
        => fn.result.thrown

\* C33: every chunk chunkText returns has at most maxTokens * 4 characters.
C33_ChunksWithinBudget ==
    (fn.name = "chunkText" /\ fn.done) =>
        \A k \in 1..Len(fn.chunks) : Len(fn.chunks[k]) <= fn.maxTokens * 4

\* C34: cosineSimilarity returns 0 when one of the vectors has norm 0, and
\* never a value that is not a number.
C34_ZeroNormGivesZero ==
    (fn.name = "cosineSimilarity" /\ fn.done) =>
        /\ ~fn.similarity.nan
        /\ ((\A i \in 1..Len(fn.vecA) : fn.vecA[i] = 0)
               \/ (\A i \in 1..Len(fn.vecB) : fn.vecB[i] = 0))
              => fn.similarity.dot = 0

\* the messages that hold a word of the task vocabulary or an SP-123
\* reference
IdentifierMessages ==
    {"what tasks were discussed", "status of SP-42", "tasks of each meeting"}

\* C35: a request that has launched its strategies has launched the vector
\* and the keyword search, and the task search exactly when its message is
\* an identifier query; the fused result of any other query holds no hit
\* of the task search.
C35_ScannerOnlyForIdentifierQuery ==
    chat.vector.status # "none" =>
        /\ chat.keyword.status # "none"
        /\ chat.task.status # "none" <=> chat.message \in IdentifierMessages
        /\ chat.message \notin IdentifierMessages =>
              \A k \in 1..Len(chat.similarContent) :
                  chat.similarContent[k].similarity # TaskScore

\* C35 witness: the fused result of a query that is no identifier query
\* holds a chunk with an SP-123 reference, found by another strategy.
C35_Witness ==
    /\ Merged
    /\ chat.message \notin IdentifierMessages
    /\ chat.task.status = "none"
    /\ \E k \in 1..Len(chat.similarContent) :
          chat.similarContent[k].content \in TaskRefTexts

\* C36: the task search returns at most 20 hits, each with similarity 0.95;
\* the keyword search returns at most 15 hits, each with similarity 0.9, and
\* no stored chunk twice.
C36_ScannerLimitsAndScores ==
    /\ chat.task.status = "ok" =>
          /\ Len(chat.task.hits) <= 20
          /\ \A k \in 1..Len(chat.task.hits) : chat.task.hits[k].similarity = 95
    /\ chat.keyword.status = "ok" =>
          /\ Len(chat.keyword.hits) <= 15
          /\ \A k \in 1..Len(chat.keyword.hits) : chat.keyword.hits[k].similarity = 90
          /\ \A j, k \in 1..Len(chat.keyword.hits) :
                (/\ chat.keyword.hits[j].transcriptId = chat.keyword.hits[k].transcriptId
                 /\ chat.keyword.hits[j].chunkIndex = chat.keyword.hits[k].chunkIndex)
                    => j = k

\* C36 witness: over a store with more than 20 chunks that hold a reference
\* the task search returned 20 hits, and the keyword search, whose queries
\* match more than 15 chunks, returned 15.
C36_Witness ==
    /\ Cardinality(IdentifierChunks) > 20
    /\ chat.task.status = "ok"
    /\ Len(chat.task.hits) = 20
    /\ chat.keyword.status = "ok"
    /\ Len(chat.keyword.hits) = 15

\* C37: a lock entry is removed only by the attempt that inserted it: in
\* every step in which an ID leaves the lock set, the handler taking the
\* step was running an attempt for that ID; a handler that finds the lock
\* held and records the in-progress skip removes nothing.
C37_LockRemovedOnlyByHolder ==
    [][\A id \in generationLocks \ generationLocks' :
          \E r \in Handlers : InAttempt(r) /\ CurrentId(r) = id /\ Resumes(r)]_vars

\* in this step handler r records an error outcome for its current ID
RecordsError(r) ==
    /\ InAttempt(r)
    /\ Len(req'[r].results) >= req[r].i
    /\ Len(req[r].results) < req[r].i
    /\ req'[r].results[req[r].i].status = "error"

\* the part of C38 about the generated outcome: it is recorded in the step
\* in which updateOne returns, after addDocuments has stored every document
\* of the attempt, and with the metadata written
C38_GeneratedPart ==
    [][\A r \in Handlers :
          RecordsGenerated(r) =>
              LET id == CurrentId(r)
                  n == req'[r].results[req[r].i].chunksStored
              IN  /\ n = req[r].chunksStored
                  /\ n = Len(Documents(id, TranscriptContent(req[r].transcript)))
                  /\ MetadataRecorded(id, n)]_vars

\* C38: when generate records an error outcome for an ID, every chunk then
\* stored for the ID was stored before the attempt began (nothing the
\* attempt wrote remains); and generated is recorded only after the chunks
\* and the ingestion metadata have been persisted.
C38_ErrorLeavesNoChunks ==
    /\ [][\A r \in Handlers :
             RecordsError(r) =>
                 ChunksOf(embeddingsColl', CurrentId(r)) \sqsubseteq req[r].before]_vars
    /\ C38_GeneratedPart

\* the sum of chunksUsed over the entries of a per-transcript analysis
RECURSIVE SumChunksUsed(_)
SumChunksUsed(details) ==
    IF details = <<>> THEN 0
    ELSE details[Len(details)].chunksUsed
             + SumChunksUsed(SubSeq(details, 1, Len(details) - 1))

\* C39: in every successful message response chunksRetrieved is the number
\* of sources, contextUsed is true exactly when chunksRetrieved > 0, and the
\* chunksUsed of the per-transcript analysis sum to chunksRetrieved.
C39_ResponseCountsAgree ==
    chat.response.code = 200 =>
        /\ chat.response.chunksRetrieved = Len(chat.response.sources)
        /\ chat.response.contextUsed <=> chat.response.chunksRetrieved > 0
        /\ SumChunksUsed(chat.response.transcripts) = chat.response.chunksRetrieved

\* C39 witness: a successful response with three sources from two
\* transcripts, so that one transcript accounts for two of them.
C39_Witness ==
    /\ chat.response.code = 200
    /\ chat.response.chunksRetrieved = 3
    /\ Len(chat.response.transcripts) = 2
    /\ chat.response.contextUsed

====
